---- MODULE Spec2Model ----
(***************************************************************************)
(* ai_forward: an authenticated gateway in front of several LLM providers. *)
(*                                                                         *)
(* The repository holds two generations of the gateway.  The axum          *)
(* application (main.rs, middleware/mod.rs, state.rs, handlers/*.rs,       *)
(* services/ai.rs) authenticates in a middleware backed by IpBanManager    *)
(* and forwards through AIService.  The salvo handlers (api.rs) check the  *)
(* Authorization header inline and forward through forward /               *)
(* select_provider / select_key.  A behaviour of this model runs one of    *)
(* the two, chosen by `build` in Init.                                     *)
(*                                                                         *)
(* Text values.  A client identifier is a string.  A model name is a       *)
(* sequence of colon-free pieces, <<"B", "custom-x">> standing for the     *)
(* text "B:custom-x", so that split_once(':') is computed, not assumed.    *)
(* Time is counted in whole hours.                                         *)
(***************************************************************************)
EXTENDS Integers, Sequences, FiniteSets, TLC

\* ---------------------------------------------------------------- bounds
\* The clock runs from 0 to MaxTime hours.
MaxTime == 2
\* A failure record is not counted beyond this value (the u32 counter of an
\* identifier that is_banned never reports would grow without bound).
MaxCount == 6
\* No counted request starts once a usage counter has this value.
MaxUsage == 3

\* ------------------------------------------------------------- constants
\* IpBanManager::new(5)
max_failures == 5
\* failure_window_hours: 1
failure_window_hours == 1
\* Duration::from_secs(failure_window_hours * 3600), in hours
window_duration == failure_window_hours

\* The prefix length handed to IpNet::new.
Ipv6PrefixLen == 48

Slots == {"r1", "r2"}

None == "none"

\* ------------------------------------------------- client identifiers
\* The identifier strings extract_client_ip can produce in this model: two
\* public IPv4 peers, three IPv6 peers (two in 2001:db8:abcd::/48, one in
\* 2001:db8:ffff::/48) and, behind a private peer, an X-Real-IP header value
\* that is no IP address.
Ip4 == "203.0.113.7"
Ip4b == "198.51.100.9"
Ip6a == "2001:db8:abcd::1"
Ip6b == "2001:db8:abcd:ffff::2"
Ip6c == "2001:db8:ffff::1"
IpRaw == "unknown"
\* The address of a reverse proxy in the private network.
IpPrivate == "10.0.0.2"

ClientIps == {Ip4, Ip4b, Ip6a, Ip6b, Ip6c, IpRaw, IpPrivate}

\* ip.parse::<IpAddr>(): the parsed address (family and 16-bit segments or
\* octets), or an error.
ParseIpAddr(ip) ==
    CASE ip = Ip4 -> [ok |-> TRUE, family |-> "V4", addr |-> <<203, 0, 113, 7>>]
      [] ip = Ip4b -> [ok |-> TRUE, family |-> "V4", addr |-> <<198, 51, 100, 9>>]
      [] ip = Ip6a -> [ok |-> TRUE, family |-> "V6",
                       addr |-> <<8193, 3512, 43981, 0, 0, 0, 0, 1>>]
      [] ip = Ip6b -> [ok |-> TRUE, family |-> "V6",
                       addr |-> <<8193, 3512, 43981, 65535, 0, 0, 0, 2>>]
      [] ip = Ip6c -> [ok |-> TRUE, family |-> "V6",
                       addr |-> <<8193, 3512, 65535, 0, 0, 0, 0, 1>>]
      [] ip = IpPrivate -> [ok |-> TRUE, family |-> "V4", addr |-> <<10, 0, 0, 2>>]
      [] ip = "fd00::1" -> [ok |-> TRUE, family |-> "V6",
                            addr |-> <<64768, 0, 0, 0, 0, 0, 0, 1>>]
      [] OTHER -> [ok |-> FALSE, family |-> None, addr |-> <<>>]

\* Display of an IPv6 address (the canonical compressed text).
Ipv6ToString(addr) ==
    CASE addr = <<8193, 3512, 43981, 0, 0, 0, 0, 1>> -> Ip6a
      [] addr = <<8193, 3512, 43981, 65535, 0, 0, 0, 2>> -> Ip6b
      [] addr = <<8193, 3512, 65535, 0, 0, 0, 0, 1>> -> Ip6c
      [] addr = <<8193, 3512, 43981, 0, 0, 0, 0, 0>> -> "2001:db8:abcd::"
      [] addr = <<8193, 3512, 65535, 0, 0, 0, 0, 0>> -> "2001:db8:ffff::"
      [] OTHER -> "?"

\* IpNet::new(ip, prefix_len): the address is stored as given, host bits
\* included (ipnet truncates only in trunc()/network()); the call fails only
\* for a prefix length above the address width.
IpNetNew(addr, prefix_len) ==
    IF prefix_len > 128
    THEN [ok |-> FALSE, addr |-> <<>>, prefix_len |-> prefix_len]
    ELSE [ok |-> TRUE, addr |-> addr, prefix_len |-> prefix_len]

\* IpNet::to_string(): "<addr>/<prefix_len>".
IpNetToString(net) == Ipv6ToString(net.addr) \o "/" \o ToString(net.prefix_len)

\* IpBanManager::get_ipv6_network
get_ipv6_network(ip) ==
    LET p == ParseIpAddr(ip) IN
    IF p.ok /\ p.family = "V6"
    THEN LET net == IpNetNew(p.addr, Ipv6PrefixLen) IN
         IF net.ok THEN IpNetToString(net) ELSE None
    ELSE None

\* ------------------------------------- middleware: extract_client_ip
\* A header value is a sequence of pieces of text: addresses, "," and " ".
\* text tells whether HeaderValue::to_str succeeds on it.

\* A client as auth_handler meets it: the peer address of the connection
\* and the X-Real-IP and X-Forwarded-For headers of the request.
Client(peer, x_real_ip, x_forwarded_for) ==
    [peer |-> peer,
     x_real_ip |-> [present |-> x_real_ip # <<>>, text |-> TRUE, value |-> x_real_ip],
     x_forwarded_for |-> [present |-> x_forwarded_for # <<>>, text |-> TRUE,
                          value |-> x_forwarded_for]]

\* The text that a sequence of pieces spells.
RECURSIVE Concat(_)
Concat(pieces) ==
    IF pieces = <<>> THEN "" ELSE Head(pieces) \o Concat(Tail(pieces))

\* value.split(',').next().unwrap().trim(): the pieces before the first
\* comma, without the blanks at either end.
RECURSIVE trim(_)
trim(pieces) ==
    IF pieces = <<>> THEN <<>>
    ELSE IF Head(pieces) = " " THEN trim(Tail(pieces))
    ELSE IF pieces[Len(pieces)] = " " THEN trim(SubSeq(pieces, 1, Len(pieces) - 1))
    ELSE pieces

first_field(pieces) ==
    LET commas == {i \in 1..Len(pieces) : pieces[i] = ","} IN
    IF commas = {} THEN pieces
    ELSE SubSeq(pieces, 1, (CHOOSE i \in commas : \A j \in commas : i <= j) - 1)

\* is_private_ip, on the parsed address: 10/8, 172.16/12, 192.168/16,
\* 127/8; ::1 and fc00::/7 (segments()[0] & 0xfe00 == 0xfc00).
is_private_ip(ip) ==
    IF ip.family = "V4"
    THEN \/ ip.addr[1] = 10
         \/ ip.addr[1] = 172 /\ ip.addr[2] >= 16 /\ ip.addr[2] <= 31
         \/ ip.addr[1] = 192 /\ ip.addr[2] = 168
         \/ ip.addr[1] = 127
    ELSE \/ ip.addr = <<0, 0, 0, 0, 0, 0, 0, 1>>
         \/ ip.addr[1] \div 512 = 126

\* extract_client_ip as its first comment has it (X-Real-IP, then
\* X-Forwarded-For, then the connection), whatever the peer.
extract_client_ip_headers_first(client) ==
    IF client.x_real_ip.present /\ client.x_real_ip.text
    THEN Concat(client.x_real_ip.value)
    ELSE IF client.x_forwarded_for.present /\ client.x_forwarded_for.text
    THEN Concat(trim(first_field(client.x_forwarded_for.value)))
    ELSE client.peer

\* extract_client_ip
extract_client_ip(client) ==
    IF ~is_private_ip(ParseIpAddr(client.peer)) THEN client.peer
    ELSE IF client.x_real_ip.present /\ client.x_real_ip.text
    THEN Concat(client.x_real_ip.value)
    ELSE IF client.x_forwarded_for.present /\ client.x_forwarded_for.text
    THEN Concat(trim(first_field(client.x_forwarded_for.value)))
    ELSE client.peer

VARIABLES
    load,                   \* the gateway that runs and the inputs its clients send
    now,                    \* Instant::now(), in hours
    ipv4_fail_records,      \* IpBanManager: key -> <<count, first failure>>
    ipv6_fail_records,
    banned_ipv4,            \* IpBanManager: permanently banned keys
    banned_ipv6_networks,
    config,                 \* AppState.config: the snapshot behind the RwLock
    cfg_readers,            \* per slot: read guards of the config lock it holds
    cfg_writers,            \* slots whose config.write() is pending
    provider_usage,         \* provider name -> count
    key_usage,              \* key -> count
    pc,                     \* per slot: where its task stands
    req,                    \* per slot: the request, as far as it has been read
    loc,                    \* per slot: the locals of its handler
    resp,                   \* per slot: the response sent
    obs,                    \* per slot: what the request has caused so far
    hist,                   \* per client: its authentication history
    cache,                  \* CACHE: messages -> response
    store,                  \* the rows of table ai_requests, in id order
    boot,                   \* how many rows load_cache has inserted at startup
    answered,               \* per messages: the content first answered for them
    sse                     \* the upstream body under relay, and its filter's state

banVars == <<ipv4_fail_records, ipv6_fail_records, banned_ipv4, banned_ipv6_networks>>
cfgVars == <<config, cfg_readers, cfg_writers>>
usageVars == <<provider_usage, key_usage>>
vars == <<load, now, ipv4_fail_records, ipv6_fail_records, banned_ipv4,
          banned_ipv6_networks, config, cfg_readers, cfg_writers,
          provider_usage, key_usage, pc, req, loc, resp, obs, hist,
          cache, store, boot, answered, sse>>
memoVars == <<cache, store, boot, answered, sse>>

\* ------------------------------------------------------------ map helpers
Has(map, k) == k \in DOMAIN map
Put(map, k, v) == [x \in DOMAIN map \cup {k} |-> IF x = k THEN v ELSE map[x]]
Remove(map, k) == [x \in DOMAIN map \ {k} |-> map[x]]
EmptyMap == [x \in {} |-> 0]

\* ------------------------------------------------------------ IpBanManager
\* IpBanManager::is_ipv6_banned
is_ipv6_banned(ip) ==
    LET p == ParseIpAddr(ip)
        net == IpNetNew(p.addr, Ipv6PrefixLen)
    IN  IF p.family = "V6" /\ net.ok
        THEN IpNetToString(net) \in banned_ipv6_networks
        ELSE FALSE

\* is_banned, had the ban been tied to the failure window.
is_banned_in_window(ip) ==
    LET p == ParseIpAddr(ip) IN
    IF p.ok
    THEN IF p.family = "V4"
         THEN /\ ip \in banned_ipv4
              /\ Has(ipv4_fail_records, ip)
              /\ now - ipv4_fail_records[ip][2] <= window_duration
         ELSE is_ipv6_banned(ip)
    ELSE FALSE

\* IpBanManager::is_banned
is_banned(ip) ==
    LET p == ParseIpAddr(ip) IN
    IF p.ok
    THEN IF p.family = "V4" THEN ip \in banned_ipv4 ELSE is_ipv6_banned(ip)
    ELSE FALSE

\* The block of record_failure, had it created the record with
\* or_insert((1, now)) and then counted the failure once more.
CountFailure_seeded(records, banned, key) ==
    LET entry == IF Has(records, key) THEN records[key] ELSE <<1, now>>
        first_failure_time == entry[2]
    IN  IF now - first_failure_time <= window_duration
        THEN LET new_count == entry[1] + 1 IN
             [records |-> Put(records, key, <<new_count, first_failure_time>>),
              banned |-> IF new_count >= max_failures
                         THEN banned \cup {key} ELSE banned]
        ELSE [records |-> Put(records, key, <<1, now>>), banned |-> banned]

\* The block of record_failure, had it measured the window from the latest
\* failure instead of the first.
CountFailure_sliding(records, banned, key) ==
    LET entry == IF Has(records, key) THEN records[key] ELSE <<0, now>>
        first_failure_time == entry[2]
    IN  IF now - first_failure_time <= window_duration
        THEN LET new_count == entry[1] + 1 IN
             [records |-> Put(records, key, <<new_count, now>>),
              banned |-> IF new_count >= max_failures
                         THEN banned \cup {key} ELSE banned]
        ELSE [records |-> Put(records, key, <<1, now>>), banned |-> banned]

\* The block of record_failure, had a failure after the window restarted
\* the window and gone on counting.
CountFailure_carry(records, banned, key) ==
    LET entry == IF Has(records, key) THEN records[key] ELSE <<0, now>>
        first_failure_time == entry[2]
    IN  IF now - first_failure_time <= window_duration
        THEN LET new_count == entry[1] + 1 IN
             [records |-> Put(records, key, <<new_count, first_failure_time>>),
              banned |-> IF new_count >= max_failures
                         THEN banned \cup {key} ELSE banned]
        ELSE [records |-> Put(records, key, <<entry[1] + 1, now>>), banned |-> banned]

\* The block of record_failure, had it banned only beyond max_failures.
CountFailure_beyond(records, banned, key) ==
    LET entry == IF Has(records, key) THEN records[key] ELSE <<0, now>>
        first_failure_time == entry[2]
    IN  IF now - first_failure_time <= window_duration
        THEN LET new_count == entry[1] + 1 IN
             [records |-> Put(records, key, <<new_count, first_failure_time>>),
              banned |-> IF new_count > max_failures
                         THEN banned \cup {key} ELSE banned]
        ELSE [records |-> Put(records, key, <<1, now>>), banned |-> banned]

\* The block record_failure repeats for each kind of key: entry(key)
\* .or_insert((0, now)), then count within the window or restart the record,
\* and insert the key in the banned set at max_failures.
CountFailure(records, banned, key) ==
    LET entry == IF Has(records, key) THEN records[key] ELSE <<0, now>>
        first_failure_time == entry[2]
    IN  IF now - first_failure_time <= window_duration
        THEN LET new_count == entry[1] + 1 IN
             [records |-> Put(records, key, <<new_count, first_failure_time>>),
              banned |-> IF new_count >= max_failures
                         THEN banned \cup {key} ELSE banned]
        ELSE [records |-> Put(records, key, <<1, now>>), banned |-> banned]

\* record_failure, IPv4 branch (also the fallback and the unparseable branch,
\* which count in ipv4_fail_records under the identifier itself).
FailInIpv4Records(key) ==
    LET out == CountFailure(ipv4_fail_records, banned_ipv4, key) IN
    /\ ipv4_fail_records' = out.records
    /\ banned_ipv4' = out.banned
    /\ UNCHANGED <<ipv6_fail_records, banned_ipv6_networks>>

\* record_failure, IPv6 branch: counted under the network string.
FailInIpv6Records(network) ==
    LET out == CountFailure(ipv6_fail_records, banned_ipv6_networks, network) IN
    /\ ipv6_fail_records' = out.records
    /\ banned_ipv6_networks' = out.banned
    /\ UNCHANGED <<ipv4_fail_records, banned_ipv4>>

\* IpBanManager::record_failure
record_failure(ip) ==
    LET p == ParseIpAddr(ip) IN
    IF p.ok
    THEN IF p.family = "V4"
         THEN FailInIpv4Records(ip)
         ELSE IF get_ipv6_network(ip) # None
              THEN FailInIpv6Records(get_ipv6_network(ip))
              ELSE FailInIpv4Records(ip)
    ELSE FailInIpv4Records(ip)

\* reset_failures, had it left the records alone.
reset_failures_keep(ip) ==
    UNCHANGED <<ipv4_fail_records, ipv6_fail_records, banned_ipv4, banned_ipv6_networks>>

\* IpBanManager::reset_failures
reset_failures(ip) ==
    LET p == ParseIpAddr(ip) IN
    /\ IF p.ok /\ p.family = "V6" /\ get_ipv6_network(ip) # None
       THEN /\ ipv6_fail_records' = Remove(ipv6_fail_records, get_ipv6_network(ip))
            /\ UNCHANGED ipv4_fail_records
       ELSE /\ ipv4_fail_records' = Remove(ipv4_fail_records, ip)
            /\ UNCHANGED ipv6_fail_records
    /\ UNCHANGED <<banned_ipv4, banned_ipv6_networks>>

\* The record get_failure_count reads for an identifier: the /48 record of
\* an IPv6 address, else the record stored under the identifier itself.
FailureRecord(ip) ==
    LET p == ParseIpAddr(ip) IN
    IF p.ok /\ p.family = "V6" /\ get_ipv6_network(ip) # None
    THEN IF Has(ipv6_fail_records, get_ipv6_network(ip))
         THEN ipv6_fail_records[get_ipv6_network(ip)] ELSE <<>>
    ELSE IF Has(ipv4_fail_records, ip) THEN ipv4_fail_records[ip] ELSE <<>>

\* IpBanManager::get_failure_count
get_failure_count(ip) ==
    LET record == FailureRecord(ip) IN
    IF record # <<>>
    THEN IF now - record[2] <= window_duration THEN record[1] ELSE 0
    ELSE 0

\* ---------------------------------------------------------- configuration
\* Two providers that both serve the alias "m".
ProviderA ==
    [name |-> "A", url |-> "https://a.example/v1/chat/completions",
     models |-> << [alias |-> <<"m">>, model |-> <<"real-A">>] >>,
     keys |-> <<"ka1", "ka2">>]
ProviderB ==
    [name |-> "B", url |-> "https://b.example/v1/chat/completions",
     models |-> << [alias |-> <<"m">>, model |-> <<"real-B">>] >>,
     keys |-> <<"kb1">>]

\* The configuration at startup.
StartConfig == [auth |-> "secret", providers |-> <<ProviderA, ProviderB>>]
\* What the configuration file may hold when it is read again: the same, an
\* edited list of providers, a configuration that fails validation (empty
\* auth), text that is not JSON, or nothing readable.
EditedConfig == [auth |-> "secret", providers |-> <<ProviderB>>]
EmptyAuthConfig == [auth |-> "", providers |-> <<ProviderA>>]
ConfigFiles ==
    {[readable |-> TRUE, json |-> TRUE, value |-> StartConfig],
     [readable |-> TRUE, json |-> TRUE, value |-> EditedConfig],
     [readable |-> TRUE, json |-> TRUE, value |-> EmptyAuthConfig],
     [readable |-> TRUE, json |-> FALSE, value |-> StartConfig],
     [readable |-> FALSE, json |-> FALSE, value |-> StartConfig]}

\* Config::validate
validate(cfg) ==
    /\ cfg.auth # ""
    /\ Len(cfg.providers) > 0
    /\ \A i \in 1..Len(cfg.providers) : Len(cfg.providers[i].keys) > 0

\* Config::new(), had it left out config.validate().
ConfigNew_unvalidated(file) == file.readable /\ file.json

\* Config::new() on the file as it is read: Ok(config) or Err.
ConfigNew(file) == file.readable /\ file.json /\ validate(file.value)

\* The config RwLock is fair: a read is granted while no write is pending,
\* and a write is granted once no read guard is left.
CanReadConfig == cfg_writers = {}
\* config.write(), had it been granted while read guards are alive.
CanWriteConfig_unguarded(r) == TRUE
CanWriteConfig(r) == \A s \in Slots : cfg_readers[s] = 0

\* ------------------------------------------------------------ model names
\* str::split_once(':'): the text before the first colon and the text after
\* it, or nothing when the text holds no colon.
split_once(model) ==
    IF Len(model) >= 2
    THEN [found |-> TRUE, head |-> model[1], rest |-> Tail(model)]
    ELSE [found |-> FALSE, head |-> "", rest |-> <<>>]

\* Iterator::find / position over a sequence of truth values: the first
\* index that holds TRUE, or 0.
FirstTrue(hits) ==
    IF \E i \in 1..Len(hits) : hits[i]
    THEN CHOOSE i \in 1..Len(hits) : hits[i] /\ \A h \in 1..(i - 1) : ~hits[h]
    ELSE 0

ServesAlias(provider, alias) ==
    \E j \in 1..Len(provider.models) : provider.models[j].alias = alias

\* Option<Provider>::None
NoProvider == [name |-> None, url |-> "", models |-> <<>>, keys |-> <<>>]

\* get_provider_by_model, had it fallen back on the first provider.
get_provider_by_model_fallback(cfg, model) ==
    LET s == split_once(model)
        ps == cfg.providers
        i == IF s.found
             THEN FirstTrue([n \in 1..Len(ps) |-> ps[n].name = s.head])
             ELSE FirstTrue([n \in 1..Len(ps) |-> ServesAlias(ps[n], model)])
    IN  IF i = 0 THEN cfg.providers[1] ELSE cfg.providers[i]

\* AppState::get_provider_by_model: a clone of the provider, or None.
get_provider_by_model(cfg, model) ==
    LET s == split_once(model)
        ps == cfg.providers
        i == IF s.found
             THEN FirstTrue([n \in 1..Len(ps) |-> ps[n].name = s.head])
             ELSE FirstTrue([n \in 1..Len(ps) |-> ServesAlias(ps[n], model)])
    IN  IF i = 0 THEN NoProvider ELSE cfg.providers[i]

\* The loop of get_model_mapping over the providers: the model of the
\* first Model entry with the alias, in the first provider that has one.
FindMapping(providers, alias) ==
    LET i == FirstTrue([n \in 1..Len(providers) |-> ServesAlias(providers[n], alias)])
    IN  IF i = 0 THEN <<>>
        ELSE LET ms == providers[i].models
             IN  ms[FirstTrue([j \in 1..Len(ms) |-> ms[j].alias = alias])].model

\* get_model_mapping, had it kept the provider prefix in the model name.
get_model_mapping_whole(cfg, alias) ==
    LET s == split_once(alias)
        ps == cfg.providers
    IN  IF s.found
        THEN IF FirstTrue([n \in 1..Len(ps) |-> ps[n].name = s.head]) # 0
             THEN alias ELSE <<>>
        ELSE FindMapping(cfg.providers, alias)

\* AppState::get_model_mapping: the real model name, or <<>> for None.
get_model_mapping(cfg, alias) ==
    LET s == split_once(alias)
        ps == cfg.providers
    IN  IF s.found
        THEN IF FirstTrue([n \in 1..Len(ps) |-> ps[n].name = s.head]) # 0
             THEN s.rest ELSE <<>>
        ELSE FindMapping(cfg.providers, alias)

\* ------------------------------------------------------------ usage maps
Usage(map, k) == IF Has(map, k) THEN map[k] ELSE 0
\* The increment, had it been entry(k).or_insert(1) with no `+= 1`.
Increment_or_insert(map, k) == Put(map, k, IF Has(map, k) THEN map[k] ELSE 1)
Increment(map, k) == Put(map, k, Usage(map, k) + 1)

\* min_usage of select_api_key: u64::MAX at the start, then a usage seen.
\* Every usage the bounded counters reach is below u64::MAX.
U64MaxUsage == [is_max |-> TRUE, value |-> 0]
\* The comparison of select_api_key, had it been `<=`.
BelowMin_or_equal(usage, min_usage) == min_usage.is_max \/ usage <= min_usage.value
BelowMin(usage, min_usage) == min_usage.is_max \/ usage < min_usage.value

\* The loop of select_api_key: a key replaces the selection only when its
\* usage is strictly below the minimum seen so far.
RECURSIVE ScanKeys(_, _, _, _)
ScanKeys(keys, i, min_usage, selected_key) ==
    IF i > Len(keys) THEN selected_key
    ELSE IF BelowMin(Usage(key_usage, keys[i]), min_usage)
    THEN ScanKeys(keys, i + 1,
                  [is_max |-> FALSE, value |-> Usage(key_usage, keys[i])], keys[i])
    ELSE ScanKeys(keys, i + 1, min_usage, selected_key)

\* AIService::select_api_key
select_api_key(provider) ==
    ScanKeys(provider.keys, 1, U64MaxUsage, provider.keys[1])

\* ----------------------------------------------------------------- inputs
\* Authorization headers a client may send: the configured token, a wrong
\* token, a header of another scheme, no header.
ValidAuth == [present |-> TRUE, scheme |-> "Bearer", token |-> "secret"]
WrongAuth == [present |-> TRUE, scheme |-> "Bearer", token |-> "guess"]
BasicAuth == [present |-> TRUE, scheme |-> "Basic", token |-> "secret"]
NoAuth == [present |-> FALSE, scheme |-> "", token |-> ""]

\* The prefix test, had it taken any scheme for "Bearer ".
HasBearerPrefix_any(auth) == auth.present

\* auth_str.strip_prefix("Bearer "): whether the prefix is there.
HasBearerPrefix(auth) == auth.present /\ auth.scheme = "Bearer"

\* The model field of a request body; <<>> stands for a body without one.
PlainModel == <<"m">>
ColonModel == <<"B", "custom-x">>
TwoColonModel == <<"B", "x", "y">>
UnknownProviderModel == <<"Z", "custom-x">>
UnservedModel == <<"nope">>
NoModel == <<>>

\* What the upstream does with a request: answers 200, answers 500, or the
\* connection fails.
UpstreamOk == [kind |-> "response", status |-> 200, body |-> "answer"]
UpstreamDown == [kind |-> "response", status |-> 500, body |-> "upstream down"]
TransportError == [kind |-> "error", status |-> 0, body |-> "connection refused"]

\* StatusCode::is_success
is_success(status) == status >= 200 /\ status <= 299

\* The messages arrays the clients send, and a row of table ai_requests.
Greeting == "hi"
Question == "why"
Farewell == "bye"
Messages == {Greeting, Question, Farewell}
AIRequest(messages, response) == [messages |-> messages, response |-> response]

\* A workload: the gateway that runs, the request slots in use (one slot
\* serves its requests one after the other, two slots serve them
\* concurrently), whether the run spans hours, the inputs the clients
\* draw from, whether DB is set, and the rows its table holds at startup.
BanLoadV4 ==
    [build |-> "axum", slots |-> {"r1"}, clock |-> TRUE,
     clients |-> {Client(Ip4, <<>>, <<>>), Client(IpPrivate, <<IpRaw>>, <<>>)},
     auths |-> {ValidAuth, WrongAuth, NoAuth},
     routes |-> {"stats"}, models |-> {PlainModel}, outcomes |-> {UpstreamOk},
     messages |-> {Greeting}, streams |-> {FALSE}, database |-> FALSE,
     rows |-> <<>>]
BanLoadV6 ==
    [build |-> "axum", slots |-> {"r1"}, clock |-> FALSE,
     clients |-> {Client(ip, <<>>, <<>>) : ip \in {Ip6a, Ip6b, Ip6c}},
     auths |-> {ValidAuth, WrongAuth},
     routes |-> {"stats"}, models |-> {PlainModel}, outcomes |-> {UpstreamOk},
     messages |-> {Greeting}, streams |-> {FALSE}, database |-> FALSE,
     rows |-> <<>>]
RouteLoad ==
    [build |-> "axum", slots |-> {"r1"}, clock |-> FALSE,
     clients |-> {Client(Ip4, <<>>, <<>>), Client(Ip4b, <<>>, <<>>)},
     auths |-> {ValidAuth, BasicAuth},
     routes |-> {"chat", "reset", "stats"},
     models |-> {PlainModel, ColonModel, TwoColonModel, UnknownProviderModel,
                 UnservedModel, NoModel},
     outcomes |-> {UpstreamOk, UpstreamDown, TransportError},
     messages |-> {Greeting, Question}, streams |-> {FALSE}, database |-> FALSE,
     rows |-> <<>>]
\* Chat requests for one alias, and resets, that arrive two at a time.
SelectLoad ==
    [build |-> "axum", slots |-> {"r1", "r2"}, clock |-> FALSE,
     clients |-> {Client(Ip4, <<>>, <<>>)}, auths |-> {ValidAuth},
     routes |-> {"chat", "reset"}, models |-> {PlainModel},
     outcomes |-> {UpstreamOk, TransportError},
     messages |-> {Greeting}, streams |-> {FALSE}, database |-> FALSE,
     rows |-> <<>>]
\* One client whose requests arrive two at a time.
RaceLoad ==
    [build |-> "axum", slots |-> {"r1", "r2"}, clock |-> TRUE,
     clients |-> {Client(Ip4, <<>>, <<>>)}, auths |-> {ValidAuth, WrongAuth},
     routes |-> {"stats"}, models |-> {PlainModel}, outcomes |-> {UpstreamOk},
     messages |-> {Greeting}, streams |-> {FALSE}, database |-> FALSE,
     rows |-> <<>>]
\* Clients that reach the gateway directly, with forged headers or
\* without, and clients behind a reverse proxy of the private network.
ProxyLoad ==
    [build |-> "axum", slots |-> {"r1"}, clock |-> FALSE,
     clients |-> {Client(Ip4, <<>>, <<>>),
                  Client(Ip4, <<Ip4b>>, <<>>),
                  Client(Ip4, <<>>, <<Ip4b, ",", " ", IpPrivate>>),
                  Client(IpPrivate, <<Ip4b>>, <<IpRaw>>),
                  Client(IpPrivate, <<>>, <<" ", Ip4b, " ", ",", Ip4>>),
                  Client(IpPrivate, <<>>, <<>>),
                  Client("fd00::1", <<Ip4b>>, <<>>),
                  [Client(IpPrivate, <<IpRaw>>, <<Ip4b>>) EXCEPT !.x_real_ip.text = FALSE]},
     auths |-> {ValidAuth, WrongAuth},
     routes |-> {"stats"}, models |-> {PlainModel}, outcomes |-> {UpstreamOk},
     messages |-> {Greeting}, streams |-> {FALSE}, database |-> FALSE,
     rows |-> <<>>]
SalvoLoad ==
    [build |-> "salvo", slots |-> {"r1"}, clock |-> FALSE,
     clients |-> {Client(Ip4, <<>>, <<>>)}, auths |-> {ValidAuth, WrongAuth, NoAuth},
     routes |-> {"completions"},
     models |-> {PlainModel, ColonModel, UnservedModel, NoModel},
     outcomes |-> {UpstreamOk, UpstreamDown, TransportError},
     messages |-> {Greeting, Question}, streams |-> {FALSE, TRUE},
     database |-> TRUE,
     rows |-> <<AIRequest(Farewell, "goodbye"), AIRequest(Greeting, "hello")>>]
\* The cache and the table under the calls of logger::record that finished
\* exchanges make, two at a time.
RecordLoad ==
    [build |-> "salvo", slots |-> {"r1", "r2"}, clock |-> FALSE,
     clients |-> {Client(Ip4, <<>>, <<>>)}, auths |-> {ValidAuth},
     routes |-> {"record"},
     models |-> {PlainModel}, outcomes |-> {UpstreamOk},
     messages |-> Messages, streams |-> {FALSE}, database |-> TRUE,
     rows |-> <<>>]
\* The same without a database in the configuration: DB is never set.
NoStoreLoad ==
    [build |-> "salvo", slots |-> {"r1"}, clock |-> FALSE,
     clients |-> {Client(Ip4, <<>>, <<>>)}, auths |-> {ValidAuth},
     routes |-> {"record"},
     models |-> {PlainModel}, outcomes |-> {UpstreamOk},
     messages |-> Messages, streams |-> {FALSE}, database |-> FALSE,
     rows |-> <<>>]
\* A start on a table in which the same messages were stored more than once.
RestartLoad ==
    [build |-> "salvo", slots |-> {"r1"}, clock |-> FALSE,
     clients |-> {Client(Ip4, <<>>, <<>>)}, auths |-> {ValidAuth},
     routes |-> {"completions"},
     models |-> {PlainModel}, outcomes |-> {UpstreamOk},
     messages |-> {Greeting}, streams |-> {FALSE}, database |-> TRUE,
     rows |-> <<AIRequest(Farewell, "goodbye"), AIRequest(Greeting, "answer"),
                AIRequest(Greeting, "other answer")>>]
Workloads ==
    {BanLoadV4, BanLoadV6, RouteLoad, RaceLoad, SelectLoad, ProxyLoad, SalvoLoad,
     RecordLoad, NoStoreLoad, RestartLoad}

\* ------------------------------------------------- db.rs: CACHE and the table
\* The assistant texts that upstreams answer, and the most rows the table
\* is let grow to.
Responses == {"answer", "other answer"}
MaxRows == 2

\* cache_size of the configuration: the capacity of CACHE and the LIMIT of
\* load_cache's query.
cache_size == 2

\* Cache::insert: the entry of the key is written, whatever it held; a cache
\* grown beyond its capacity gives up another entry.
CacheInsert(c, messages, response) ==
    LET put == Put(c, messages, response) IN
    IF Cardinality(DOMAIN put) <= cache_size THEN {put}
    ELSE {Remove(put, victim) : victim \in DOMAIN put \ {messages}}

\* SELECT * FROM ai_requests ORDER BY id DESC LIMIT cache_size
RecentRows(rows) ==
    LET n == IF Len(rows) < cache_size THEN Len(rows) ELSE cache_size
    IN  [i \in 1..n |-> rows[Len(rows) - i + 1]]

\* get_from_db: the rows fetch_optional may return for the messages.
get_from_db(messages) == {store[i] : i \in {j \in 1..Len(store) : store[j].messages = messages}}

\* The server takes requests once DB, if there is one, has loaded the cache.
Started == ~load.database \/ boot = Len(RecentRows(load.rows))

\* ------------------------------------ api.rs: no_think_completions, streams
\* Texts are sequences of characters.
OpenPrefix == <<"<", "t", "h">>
CloseTag == <<"<", "/", "t", "h", "i", "n", "k", ">", "\n", "\n">>
\* The texts of delta.content in the events an upstream sends:
\*   ThinkStart: the reasoning begins
\*   ThinkEnd: the reasoning ends and the answer begins
\*   AnswerRest: the answer goes on
\*   ShortWord: the answer of a model that does not reason, two characters
\*   ThreeChars: the first three characters of the open tag
\*   RestOfWord: more of such an answer
\*   TwoCloses: reasoning and an answer that holds the close tag itself
\*   LateClose: a close tag behind text that is no open tag
\*   CloseOnly: the close tag as an event of its own
Contents ==
    [ThinkStart |->
        <<"<", "t", "h", "i", "n", "k", ">", "p", "l", "a">>,
     ThinkEnd |->
        <<"n", "<", "/", "t", "h", "i", "n", "k", ">", "\n", "\n", "a",
        "n", "s", "w", "e", "r", "-", "1", " ">>,
     AnswerRest |->
        <<"a", "n", "s", "w", "e", "r", "-", "2">>,
     ShortWord |->
        <<"H", "i">>,
     ThreeChars |->
        <<"<", "t", "h">>,
     RestOfWord |->
        <<" ", "t", "h", "e", "r", "e">>,
     TwoCloses |->
        <<"<", "t", "h", "i", "n", "k", ">", "a", "<", "/", "t", "h", "i",
        "n", "k", ">", "\n", "\n", "b", "<", "/", "t", "h", "i", "n", "k",
        ">", "\n", "\n", "c">>,
     LateClose |->
        <<"x", "<", "/", "t", "h", "i", "n", "k", ">", "\n", "\n", "y">>,
     CloseOnly |->
        <<"<", "/", "t", "h", "i", "n", "k", ">", "\n", "\n">>]

\* An event of the upstream's stream: data that parses as JSON or not (as
\* "[DONE]"), with a string at choices[0].delta.content or not.
Delta(content) == [json |-> TRUE, has_content |-> TRUE, content |-> content]
DoneEvent == [json |-> FALSE, has_content |-> FALSE, content |-> <<>>]
RoleEvent == [json |-> TRUE, has_content |-> FALSE, content |-> <<>>]
Events ==
    {Delta(Contents.ThinkStart), Delta(Contents.ThinkEnd), Delta(Contents.AnswerRest), Delta(Contents.ShortWord),
     Delta(Contents.ThreeChars), Delta(Contents.RestOfWord), Delta(Contents.TwoCloses), Delta(Contents.LateClose),
     Delta(Contents.CloseOnly),
     DoneEvent, RoleEvent}

\* The most events of one stream.
MaxEvents == 3

\* str::starts_with
starts_with(text, prefix) ==
    Len(text) >= Len(prefix) /\ SubSeq(text, 1, Len(prefix)) = prefix

\* The positions at which pattern occurs in text.
Occurrences(text, pattern) ==
    {i \in 1..(Len(text) - Len(pattern) + 1) :
        SubSeq(text, i, i + Len(pattern) - 1) = pattern}

\* str::contains
contains(text, pattern) == Occurrences(text, pattern) # {}

\* What follows the first occurrence of the pattern in a text that holds it.
AfterFirst(text, pattern) ==
    IF ~contains(text, pattern) THEN text
    ELSE LET i == CHOOSE o \in Occurrences(text, pattern) :
                      \A q \in Occurrences(text, pattern) : q >= o
         IN  SubSeq(text, i + Len(pattern), Len(text))

\* text.split(pattern).last().unwrap(): what follows the last occurrence of
\* the pattern, the whole text when there is none.
split_last(text, pattern) ==
    IF ~contains(text, pattern) THEN text
    ELSE LET i == CHOOSE o \in Occurrences(text, pattern) :
                      \A q \in Occurrences(text, pattern) : q <= o
         IN  SubSeq(text, i + Len(pattern), Len(text))

\* Model of config.rs: whether the model entry is marked as one that thinks.
\* The struct has the fields alias and model only; a think key of the file
\* is dropped when the file is parsed.
think(model) == FALSE

\* The closure of no_think_completions, had it given up on a buffer of more
\* than three characters whatever its beginning.
no_think_event_impatient(thinked, buffer, event) ==
    IF thinked \/ ~event.json \/ ~event.has_content
    THEN [thinked |-> thinked, buffer |-> buffer, emit |-> event]
    ELSE LET pushed == buffer \o event.content IN
         IF contains(pushed, CloseTag)
         THEN [thinked |-> TRUE, buffer |-> pushed,
               emit |-> Delta(split_last(pushed, CloseTag))]
         ELSE IF Len(pushed) > 3
         THEN [thinked |-> TRUE, buffer |-> pushed, emit |-> Delta(pushed)]
         ELSE [thinked |-> FALSE, buffer |-> pushed, emit |-> Delta(<<>>)]

\* The closure of no_think_completions applied to one event: the flag and
\* the buffer after it, and the event sent to the client.
no_think_event(thinked, buffer, event) ==
    IF thinked \/ ~event.json \/ ~event.has_content
    THEN [thinked |-> thinked, buffer |-> buffer, emit |-> event]
    ELSE LET pushed == buffer \o event.content IN
         IF ~starts_with(pushed, OpenPrefix) /\ Len(pushed) > 3
         THEN [thinked |-> TRUE, buffer |-> pushed, emit |-> Delta(pushed)]
         ELSE IF contains(pushed, CloseTag)
         THEN [thinked |-> TRUE, buffer |-> pushed,
               emit |-> Delta(split_last(pushed, CloseTag))]
         ELSE [thinked |-> FALSE, buffer |-> pushed, emit |-> Delta(<<>>)]

\* No exchange under way; sent holds the events sent to the client for the
\* events received.
NoStream == [endpoint |-> None, model |-> [alias |-> <<>>, model |-> <<>>], stream |-> FALSE, thinked |-> FALSE,
             buffer |-> <<>>, received |-> <<>>, sent |-> <<>>]

\* The filter as the specification states it, run over the first n events
\* of a stream: while still thinking, the content of an event is appended
\* to the buffer; a buffer that holds the close tag is sent from behind the
\* first close tag on; else a buffer of more than three characters that
\* does not begin with "<th" is sent whole; else the empty text is sent.
\* Once the thinking is over, and for events without content, the event
\* is sent as it came.
RECURSIVE SpecThinkRun(_, _)
SpecThinkRun(events, n) ==
    IF n = 0 THEN [stillThinking |-> TRUE, buffer |-> <<>>, sent |-> <<>>]
    ELSE LET prev == SpecThinkRun(events, n - 1)
             e == events[n]
             b == prev.buffer \o e.content
         IN  IF ~prev.stillThinking \/ ~e.json \/ ~e.has_content
             THEN [prev EXCEPT !.sent = Append(@, e)]
             ELSE IF contains(b, CloseTag)
             THEN [stillThinking |-> FALSE, buffer |-> b,
                   sent |-> Append(prev.sent, Delta(AfterFirst(b, CloseTag)))]
             ELSE IF Len(b) > 3 /\ ~starts_with(b, OpenPrefix)
             THEN [stillThinking |-> FALSE, buffer |-> b,
                   sent |-> Append(prev.sent, Delta(b))]
             ELSE [stillThinking |-> TRUE, buffer |-> b,
                   sent |-> Append(prev.sent, Delta(<<>>))]

\* --------------------------------------------------------------- requests
NoRequest == [client |-> Client(None, <<>>, <<>>), ip |-> None, auth |-> NoAuth,
              route |-> None, model |-> NoModel, messages |-> None, stream |-> FALSE]
NoLocals == [provider |-> NoProvider, real_model |-> <<>>, api_key |-> None,
             status |-> 0, body |-> None,
             new_config |-> [auth |-> "", providers |-> <<>>]]
NoResponse == [status |-> 0, type |-> None, error |-> None, provider |-> None,
               content |-> None]
NoOutcome == [kind |-> None, status |-> 0, body |-> None]
\* sent: the upstream requests issued for the request; incP, incK: the
\* increments of provider and key counters made for it; outcome: what came
\* back from the upstream; incAtHdr: the increments made by the time the
\* upstream response head was read; late: whether the client had completed
\* a run of max_failures failures when the request arrived; cleared: the
\* count that the request's successful authentication found and reset.
\* file: the configuration file as reload_config read it; before: the
\* snapshot in use when it did.  prior: the content answered before, to a
\* completed non-streaming request with the same messages, when the handler
\* read the body; hit: whether the messages were then in CACHE or in the
\* table.  seen: the usage the selected key had when it was selected.
NoFile == [readable |-> FALSE, json |-> FALSE, value |-> [auth |-> "", providers |-> <<>>]]
NoObs == [sent |-> <<>>, incP |-> 0, incK |-> 0, outcome |-> NoOutcome,
          incAtHdr |-> 0, late |-> FALSE, cleared |-> 0,
          file |-> NoFile, before |-> NoFile.value, prior |-> None, hit |-> FALSE,
          seen |-> 0]

Response(status, type, error, provider, content) ==
    [status |-> status, type |-> type, error |-> error, provider |-> provider,
     content |-> content]

\* The contents answered so far, once slot r has answered content to its
\* request: the first content answered to a non-streaming request with given
\* messages stays.
FirstAnswer(r, ok, content) ==
    IF ok /\ ~req[r].stream /\ answered[req[r].messages] = None
    THEN [answered EXCEPT ![req[r].messages] = content]
    ELSE answered

\* A response leaves the slot: the task ends, and with it every guard of
\* the config lock that it holds and its pending write.
Reply(r, response) ==
    /\ resp' = [resp EXCEPT ![r] = response]
    /\ pc' = [pc EXCEPT ![r] = "done"]
    /\ cfg_readers' = [cfg_readers EXCEPT ![r] = 0]
    /\ cfg_writers' = cfg_writers \ {r}

\* ------------------------------------------------ authentication history
\* The history of a client is kept beside the gateway's own records, under
\* the key the client's failures are meant to share: the address itself, or
\* for an IPv6 address its /48 network (IpNet::trunc clears the host bits).
Trunc(net) ==
    [net EXCEPT !.addr = [i \in 1..Len(net.addr) |->
                             IF 16 * i <= net.prefix_len THEN net.addr[i] ELSE 0]]

ClientKey(ip) ==
    LET p == ParseIpAddr(ip) IN
    IF p.ok /\ p.family = "V6"
    THEN IpNetToString(Trunc(IpNetNew(p.addr, Ipv6PrefixLen)))
    ELSE ip

ClientKeys == {ClientKey(ip) : ip \in ClientIps}

\* run: per key, the failures of the current window and the hour of the
\* first of them; struck: the keys that completed a run of max_failures
\* failures inside one window with no success in between; fresh: per
\* identifier, its failures since its last success (counted up to
\* max_failures).
NoHistory ==
    [run |-> [k \in ClientKeys |-> <<0, 0>>], struck |-> {},
     fresh |-> [ip \in ClientIps |-> 0]]

AtMost(n, cap) == IF n > cap THEN cap ELSE n

\* The history after a failed authentication of ip.
NoteFailure(ip) ==
    LET k == ClientKey(ip)
        old == hist.run[k]
        n == IF old[1] > 0 /\ now - old[2] <= window_duration THEN old[1] + 1 ELSE 1
        first == IF n = 1 THEN now ELSE old[2]
    IN  [run |-> IF k \in hist.struck THEN hist.run
                 ELSE [hist.run EXCEPT ![k] = <<n, first>>],
         struck |-> IF n >= max_failures THEN hist.struck \cup {k} ELSE hist.struck,
         fresh |-> [hist.fresh EXCEPT ![ip] = AtMost(@ + 1, max_failures)]]

\* The history after a successful authentication of ip.
NoteSuccess(ip) ==
    LET k == ClientKey(ip) IN
    [run |-> IF k \in hist.struck THEN hist.run
             ELSE [hist.run EXCEPT ![k] = <<0, 0>>],
     struck |-> hist.struck,
     fresh |-> [hist.fresh EXCEPT ![ip] = 0]]

Init ==
    /\ load \in Workloads
    /\ now = 0
    /\ ipv4_fail_records = EmptyMap
    /\ ipv6_fail_records = EmptyMap
    /\ banned_ipv4 = {}
    /\ banned_ipv6_networks = {}
    /\ config = StartConfig
    /\ cfg_readers = [r \in Slots |-> 0]
    /\ cfg_writers = {}
    /\ provider_usage = EmptyMap
    /\ key_usage = EmptyMap
    /\ pc = [r \in Slots |-> "idle"]
    /\ req = [r \in Slots |-> NoRequest]
    /\ loc = [r \in Slots |-> NoLocals]
    /\ resp = [r \in Slots |-> NoResponse]
    /\ obs = [r \in Slots |-> NoObs]
    /\ hist = NoHistory
    /\ cache = EmptyMap
    /\ store = load.rows
    /\ boot = 0
    /\ answered = [m \in Messages |-> None]
    /\ sse = NoStream

\* The clock advances.
Tick ==
    /\ load.clock
    /\ now < MaxTime
    /\ now' = now + 1
    /\ UNCHANGED <<load, memoVars, hist, banVars, cfgVars, usageVars, pc, req, loc, resp, obs>>

\* ------------------------------------------------- middleware::auth_handler
\* The count stored for the identifier, whatever the window.
StoredCount(ip) == IF FailureRecord(ip) = <<>> THEN 0 ELSE FailureRecord(ip)[1]

\* auth_handler, first half: a request for a route behind the layer arrives
\* with its Authorization header; the client identifier is derived and refused when is_banned
\* reports it.
AuthHandlerEnter(r) ==
    /\ load.build = "axum"
    /\ r \in load.slots
    /\ pc[r] = "idle"
    /\ \E client \in load.clients, auth \in load.auths, route \in load.routes :
        LET ip == extract_client_ip(client) IN
        /\ is_banned(ip) \/ StoredCount(ip) < MaxCount
        /\ \A k \in DOMAIN provider_usage : provider_usage[k] < MaxUsage
        /\ req' = [req EXCEPT ![r] = [NoRequest EXCEPT !.client = client, !.ip = ip,
                                                       !.auth = auth,
                                                       !.route = route]]
        /\ obs' = [obs EXCEPT ![r].late = ClientKey(ip) \in hist.struck]
        /\ IF is_banned(ip)
           THEN Reply(r, Response(403, "ip_banned", None, None, None))
           ELSE /\ pc' = [pc EXCEPT ![r] = "authn"]
                /\ UNCHANGED <<resp, cfg_readers, cfg_writers>>
    /\ UNCHANGED <<load, memoVars, hist, now, banVars, config, usageVars, loc>>

\* The first state of the handler the router runs for a route.
HandlerEntry(route) ==
    CASE route = "chat" -> "chat"
      [] route = "reset" -> "clear_provider"
      [] route = "stats" -> "stats"

\* auth_handler, second half: read the Authorization header.  A Bearer token
\* is compared with config.auth under a read guard of the config lock; on a
\* match the failures are reset and the handler runs with the guard still
\* held, otherwise the failure is recorded and the answer is 401.
AuthHandlerCheck(r) ==
    /\ pc[r] = "authn"
    /\ HasBearerPrefix(req[r].auth) => CanReadConfig
    /\ IF HasBearerPrefix(req[r].auth) /\ req[r].auth.token = config.auth
       THEN /\ reset_failures(req[r].ip)
            /\ hist' = NoteSuccess(req[r].ip)
            /\ obs' = [obs EXCEPT ![r].cleared = StoredCount(req[r].ip)]
            /\ cfg_readers' = [cfg_readers EXCEPT ![r] = 1]
            /\ pc' = [pc EXCEPT ![r] = HandlerEntry(req[r].route)]
            /\ UNCHANGED <<resp, cfg_writers>>
       ELSE /\ record_failure(req[r].ip)
            /\ hist' = NoteFailure(req[r].ip)
            /\ Reply(r, Response(401, "auth_error", None, None, None))
            /\ UNCHANGED obs
    /\ UNCHANGED <<load, memoVars, now, config, usageVars, req, loc>>

\* ------------------------------------------- handlers::chat (axum gateway)
\* What chat_completions answers when forward_request_with_model_replacement
\* returns Err(e): always 500, with e.to_string() as the message.
ServiceError(message) == Response(500, "service_error", message, None, None)

\* chat_completions: the body is parsed and its model field extracted.
ChatCompletions(r) ==
    /\ pc[r] = "chat"
    /\ \E model \in load.models, messages \in load.messages, stream \in load.streams :
        /\ req' = [req EXCEPT ![r].model = model, ![r].messages = messages,
                              ![r].stream = stream]
        /\ obs' = [obs EXCEPT ![r].prior = IF stream THEN None ELSE answered[messages],
                              ![r].hit = Has(cache, messages) \/ get_from_db(messages) # {}]
        /\ IF model = NoModel
           THEN Reply(r, Response(400, "validation_error",
                                  "Missing or invalid model field", None, None))
           ELSE /\ pc' = [pc EXCEPT ![r] = "get_provider"]
                /\ UNCHANGED <<resp, cfg_readers, cfg_writers>>
    /\ UNCHANGED <<load, memoVars, hist, now, banVars, config, usageVars, loc>>

\* forward_request_with_model_replacement: get_provider_by_model, under a
\* read guard of its own.
GetProviderByModel(r) ==
    /\ pc[r] = "get_provider"
    /\ CanReadConfig
    /\ LET provider == get_provider_by_model(config, req[r].model) IN
       IF provider = NoProvider
       THEN /\ Reply(r, ServiceError("Validation error: Model not found"))
            /\ UNCHANGED loc
       ELSE /\ loc' = [loc EXCEPT ![r].provider = provider]
            /\ pc' = [pc EXCEPT ![r] = "get_mapping"]
            /\ UNCHANGED <<resp, cfg_readers, cfg_writers>>
    /\ UNCHANGED <<load, memoVars, hist, now, banVars, config, usageVars, req, obs>>

\* forward_request_with_model_replacement: get_model_mapping, under another
\* read guard; payload["model"] becomes the real model.
GetModelMapping(r) ==
    /\ pc[r] = "get_mapping"
    /\ CanReadConfig
    /\ LET real_model == get_model_mapping(config, req[r].model) IN
       IF real_model = <<>>
       THEN /\ Reply(r, ServiceError("Validation error: Model mapping not found"))
            /\ UNCHANGED loc
       ELSE /\ loc' = [loc EXCEPT ![r].real_model = real_model]
            /\ pc' = [pc EXCEPT ![r] = "select_key"]
            /\ UNCHANGED <<resp, cfg_readers, cfg_writers>>
    /\ UNCHANGED <<load, memoVars, hist, now, banVars, config, usageVars, req, obs>>

\* forward_request_with_model_replacement: select_api_key on the provider
\* value cloned out of the snapshot by get_provider_by_model.
SelectApiKey(r) ==
    /\ pc[r] = "select_key"
    /\ loc' = [loc EXCEPT ![r].api_key = select_api_key(loc[r].provider)]
    /\ obs' = [obs EXCEPT ![r].seen = Usage(key_usage, select_api_key(loc[r].provider))]
    /\ pc' = [pc EXCEPT ![r] = "send"]
    /\ UNCHANGED <<load, memoVars, hist, now, banVars, cfgVars, usageVars, req, resp>>

\* forward_request_with_model_replacement: the POST leaves for provider.url
\* with the selected key and the rewritten payload.
Send(r) ==
    /\ pc[r] = "send"
    /\ obs' = [obs EXCEPT ![r].sent = Append(@,
                 [provider |-> loc[r].provider.name, url |-> loc[r].provider.url,
                  key |-> loc[r].api_key, model |-> loc[r].real_model])]
    /\ pc' = [pc EXCEPT ![r] = "await_upstream"]
    /\ UNCHANGED <<load, memoVars, hist, now, banVars, cfgVars, usageVars, req, loc, resp>>

\* .send().await? returning, had a transport error sent the request again.
UpstreamReply_again(r) ==
    /\ pc[r] = "await_upstream"
    /\ load.build = "axum"
    /\ \E out \in load.outcomes :
        IF out.kind = "error"
        THEN /\ obs' = [obs EXCEPT ![r].outcome = out]
             /\ pc' = [pc EXCEPT ![r] = "send"]
             /\ UNCHANGED <<loc, resp, cfg_readers, cfg_writers>>
        ELSE /\ loc' = [loc EXCEPT ![r].status = out.status, ![r].body = out.body]
             /\ obs' = [obs EXCEPT ![r].outcome = out,
                                   ![r].incAtHdr = obs[r].incP + obs[r].incK]
             /\ pc' = [pc EXCEPT ![r] = "update_provider"]
             /\ UNCHANGED <<resp, cfg_readers, cfg_writers>>
    /\ UNCHANGED <<load, memoVars, hist, now, banVars, config, usageVars, req>>

\* .send().await? returns: a transport error leaves the function at once
\* (AppError::Http), otherwise the response head has been read.
UpstreamReply(r) ==
    /\ pc[r] = "await_upstream"
    /\ load.build = "axum"
    /\ \E out \in load.outcomes :
        IF out.kind = "error"
        THEN /\ Reply(r, ServiceError("HTTP error: " \o out.body))
             /\ obs' = [obs EXCEPT ![r].outcome = out]
             /\ UNCHANGED loc
        ELSE /\ loc' = [loc EXCEPT ![r].status = out.status, ![r].body = out.body]
             /\ obs' = [obs EXCEPT ![r].outcome = out,
                                   ![r].incAtHdr = obs[r].incP + obs[r].incK]
             /\ pc' = [pc EXCEPT ![r] = "update_provider"]
             /\ UNCHANGED <<resp, cfg_readers, cfg_writers>>
    /\ UNCHANGED <<load, memoVars, hist, now, banVars, config, usageVars, req>>

\* update_usage_stats, first block: the provider counter.
UpdateProviderUsage(r) ==
    /\ pc[r] = "update_provider"
    /\ provider_usage' = Increment(provider_usage, loc[r].provider.name)
    /\ obs' = [obs EXCEPT ![r].incP = @ + 1]
    /\ pc' = [pc EXCEPT ![r] = "update_key"]
    /\ UNCHANGED <<load, memoVars, hist, now, banVars, cfgVars, key_usage, req, loc, resp>>

\* The text of a status line, as StatusCode displays it.
StatusText(status) ==
    CASE status = 200 -> "200 OK"
      [] status = 500 -> "500 Internal Server Error"
      [] OTHER -> "?"

\* update_usage_stats, second block: the key counter; then the status check
\* and the response: Err(Internal("API request failed: <status>")) for a
\* status outside 2xx, else the upstream body with status 200.
UpdateKeyUsage(r) ==
    /\ pc[r] = "update_key"
    /\ key_usage' = Increment(key_usage, loc[r].api_key)
    /\ obs' = [obs EXCEPT ![r].incK = @ + 1]
    /\ IF ~is_success(loc[r].status)
       THEN Reply(r, ServiceError("Internal error: API request failed: "
                                   \o StatusText(loc[r].status)))
       ELSE Reply(r, Response(200, "ok", None, None, loc[r].body))
    /\ answered' = FirstAnswer(r, is_success(loc[r].status), loc[r].body)
    /\ UNCHANGED <<load, cache, store, boot, sse, hist, now, banVars, config,
                   provider_usage, req, loc>>

\* ------------------------------------------ handlers::stats (axum gateway)
\* reset_stats, first block: provider_usage.clear().
ClearProviderUsage(r) ==
    /\ pc[r] = "clear_provider"
    /\ provider_usage' = EmptyMap
    /\ pc' = [pc EXCEPT ![r] = "clear_key"]
    /\ UNCHANGED <<load, memoVars, hist, now, banVars, cfgVars, key_usage, req, loc, resp, obs>>

\* reset_stats, second block: key_usage.clear().
ClearKeyUsage(r) ==
    /\ pc[r] = "clear_key"
    /\ key_usage' = EmptyMap
    /\ pc' = [pc EXCEPT ![r] = "reload"]
    /\ UNCHANGED <<load, memoVars, hist, now, banVars, cfgVars, provider_usage, req, loc, resp, obs>>

\* reset_stats, third block: AppState::reload_config.  Config::new() reads
\* the file; an error leaves through `?` and is answered by
\* AppError::into_response.  Otherwise config.write() is requested: it is
\* granted once no read guard is left, and until then the write is pending
\* and the task waits.  With the write guard the snapshot is replaced, the
\* guard dropped and the reset answered.
ReloadConfig(r) ==
    /\ pc[r] \in {"reload", "reload_wait"}
    /\ pc[r] = "reload_wait" => CanWriteConfig(r)
    /\ \E file \in ConfigFiles :
        /\ obs' = IF pc[r] = "reload"
                  THEN [obs EXCEPT ![r].file = file, ![r].before = config]
                  ELSE obs
        /\ IF pc[r] = "reload" /\ ~ConfigNew(file)
           THEN /\ Reply(r, Response(500, "Config", "Configuration error", None, None))
                /\ UNCHANGED <<config, loc>>
           ELSE IF pc[r] = "reload" /\ ~CanWriteConfig(r)
           THEN /\ loc' = [loc EXCEPT ![r].new_config = file.value]
                /\ cfg_writers' = cfg_writers \cup {r}
                /\ pc' = [pc EXCEPT ![r] = "reload_wait"]
                /\ UNCHANGED <<config, cfg_readers, resp>>
           ELSE /\ config' = IF pc[r] = "reload" THEN file.value ELSE loc[r].new_config
                /\ Reply(r, Response(200, "ok", None, None,
                                     "stats reset and config reloaded"))
                /\ UNCHANGED loc
    /\ UNCHANGED <<load, memoVars, hist, now, banVars, usageVars, req>>

\* get_stats: the provider counters are read and returned.
GetStats(r) ==
    /\ pc[r] = "stats"
    /\ Reply(r, Response(200, "ok", None, None, provider_usage))
    /\ UNCHANGED <<load, memoVars, hist, now, banVars, config, usageVars, req, loc, obs>>

\* ------------------------------------------------- api.rs (salvo gateway)
\* Iterator::min_by_key over counts: the index of the first minimal element.
FirstMinimal(counts) ==
    CHOOSE i \in 1..Len(counts) :
        /\ \A j \in 1..Len(counts) : counts[i] <= counts[j]
        /\ \A h \in 1..(i - 1) : counts[h] > counts[i]

\* forward: the providers of CONFIG whose models hold the alias, in order.
RECURSIVE Candidates(_, _, _)
Candidates(providers, i, model) ==
    IF i > Len(providers) THEN <<>>
    ELSE IF ServesAlias(providers[i], model)
    THEN <<providers[i]>> \o Candidates(providers, i + 1, model)
    ELSE Candidates(providers, i + 1, model)

\* select_provider, the choice under the read lock.
select_provider(providers) ==
    IF providers = <<>> THEN NoProvider
    ELSE providers[FirstMinimal(
             [i \in 1..Len(providers) |-> Usage(provider_usage, providers[i].name)])]

\* select_key, the choice under the read lock.
select_key(provider) ==
    IF provider.keys = <<>> THEN None
    ELSE provider.keys[FirstMinimal(
             [i \in 1..Len(provider.keys) |-> Usage(key_usage, provider.keys[i])])]

\* load_cache, one turn of its loop: the next of the recent rows, newest
\* first, is inserted into CACHE.
LoadCacheRow ==
    /\ load.database
    /\ boot < Len(RecentRows(load.rows))
    /\ LET row == RecentRows(load.rows)[boot + 1] IN
       cache' \in CacheInsert(cache, row.messages, row.response)
    /\ boot' = boot + 1
    /\ UNCHANGED <<load, store, answered, sse, hist, now, banVars, cfgVars, usageVars,
                   pc, req, loc, resp, obs>>

\* record, up to the end of cache.insert(..).await: an exchange has ended
\* with the messages and the assistant text given, and CACHE takes the pair.
RecordInsert(r) ==
    /\ load.build = "salvo"
    /\ "record" \in load.routes
    /\ r \in load.slots
    /\ pc[r] = "idle"
    /\ Started
    /\ Len(store) < MaxRows
    /\ \E messages \in load.messages, response \in Responses :
        /\ req' = [req EXCEPT ![r] = [NoRequest EXCEPT !.route = "record",
                                                       !.messages = messages]]
        /\ loc' = [loc EXCEPT ![r].body = response]
        /\ cache' \in CacheInsert(cache, messages, response)
    /\ pc' = [pc EXCEPT ![r] = "save_to_db"]
    /\ UNCHANGED <<load, store, boot, answered, sse, hist, now, banVars, cfgVars,
                   usageVars, resp, obs>>

\* record, the rest: DB.get().unwrap() panics when DB was never set;
\* otherwise save_to_db runs its INSERT, which adds the row or fails, and
\* returns () either way.
SaveToDb(r) ==
    /\ pc[r] = "save_to_db"
    /\ IF ~load.database
       THEN /\ Reply(r, [NoResponse EXCEPT !.type = "panicked"])
            /\ UNCHANGED <<store, obs>>
       ELSE \E inserted \in BOOLEAN :
            /\ store' = IF inserted
                        THEN Append(store, AIRequest(req[r].messages, loc[r].body))
                        ELSE store
            /\ obs' = [obs EXCEPT ![r].outcome =
                          [NoOutcome EXCEPT !.kind = IF inserted THEN "inserted"
                                                    ELSE "insert failed"]]
            /\ Reply(r, [NoResponse EXCEPT !.type = "returned"])
    /\ UNCHANGED <<load, cache, boot, answered, sse, hist, now, banVars, config,
                   usageVars, req, loc>>

\* What completions answers when forward returns Err(e): 500 with e as body.
ForwardError(error, provider) == Response(500, None, error, provider, None)

\* completions up to the call of select_provider: the Authorization header
\* is compared with "Bearer <auth>", the body parsed, the model read.
Completions(r) ==
    /\ load.build = "salvo"
    /\ "completions" \in load.routes
    /\ r \in load.slots
    /\ pc[r] = "idle"
    /\ Started
    /\ \A k \in DOMAIN provider_usage : provider_usage[k] < MaxUsage
    /\ \E client \in load.clients, auth \in load.auths, model \in load.models,
          messages \in load.messages, stream \in load.streams :
        /\ req' = [req EXCEPT ![r] = [client |-> client, ip |-> client.peer,
                                      auth |-> auth,
                                      route |-> "completions", model |-> model,
                                      messages |-> messages, stream |-> stream]]
        /\ obs' = [obs EXCEPT ![r].prior = IF stream THEN None ELSE answered[messages],
                              ![r].hit = Has(cache, messages) \/ get_from_db(messages) # {}]
        /\ IF ~auth.present
           THEN Reply(r, Response(401, None, "missing Authorization", None, None))
           ELSE IF ~(auth.scheme = "Bearer" /\ auth.token = config.auth)
           THEN Reply(r, Response(401, None, "invalid Authorization", None, None))
           ELSE IF model = NoModel
           THEN Reply(r, ForwardError("missing model field", None))
           ELSE /\ pc' = [pc EXCEPT ![r] = "select_provider"]
                /\ UNCHANGED <<resp, cfg_readers, cfg_writers>>
    /\ UNCHANGED <<load, memoVars, hist, now, banVars, config, usageVars, loc>>

\* select_provider, first half: the least used candidate is chosen under
\* the read lock, and the lock dropped.
SelectProviderRead(r) ==
    /\ pc[r] = "select_provider"
    /\ LET provider == select_provider(Candidates(config.providers, 1, req[r].model)) IN
       IF provider = NoProvider
       THEN /\ Reply(r, ForwardError("no provider handles this model", None))
            /\ UNCHANGED loc
       ELSE /\ loc' = [loc EXCEPT ![r].provider = provider]
            /\ pc' = [pc EXCEPT ![r] = "count_provider"]
            /\ UNCHANGED <<resp, cfg_readers, cfg_writers>>
    /\ UNCHANGED <<load, memoVars, hist, now, banVars, config, usageVars, req, obs>>

\* select_provider, second half: its counter is incremented under the
\* write lock.
SelectProviderWrite(r) ==
    /\ pc[r] = "count_provider"
    /\ provider_usage' = Increment(provider_usage, loc[r].provider.name)
    /\ obs' = [obs EXCEPT ![r].incP = @ + 1]
    /\ pc' = [pc EXCEPT ![r] = "pick_key"]
    /\ UNCHANGED <<load, memoVars, hist, now, banVars, cfgVars, key_usage, req, loc, resp>>

\* select_key, first half.
SelectKeyRead(r) ==
    /\ pc[r] = "pick_key"
    /\ LET key == select_key(loc[r].provider) IN
       IF key = None
       THEN /\ Reply(r, ForwardError("provider has no key", None))
            /\ UNCHANGED <<loc, obs>>
       ELSE /\ loc' = [loc EXCEPT ![r].api_key = key]
            /\ obs' = [obs EXCEPT ![r].seen = Usage(key_usage, key)]
            /\ pc' = [pc EXCEPT ![r] = "count_key"]
            /\ UNCHANGED <<resp, cfg_readers, cfg_writers>>
    /\ UNCHANGED <<load, memoVars, hist, now, banVars, config, usageVars, req>>

\* select_key, second half; then forward finds the Model of the alias in the
\* chosen provider, rewrites the model field and sends the POST.
SelectKeyWrite(r) ==
    /\ pc[r] = "count_key"
    /\ key_usage' = Increment(key_usage, loc[r].api_key)
    /\ LET ms == loc[r].provider.models
           model == ms[FirstTrue([j \in 1..Len(ms) |-> ms[j].alias = req[r].model])].model
       IN  /\ loc' = [loc EXCEPT ![r].real_model = model]
           /\ obs' = [obs EXCEPT ![r].incK = @ + 1,
                                 ![r].sent = Append(@,
                        [provider |-> loc[r].provider.name, url |-> loc[r].provider.url,
                         key |-> loc[r].api_key, model |-> model])]
    /\ pc' = [pc EXCEPT ![r] = "await_upstream"]
    /\ UNCHANGED <<load, memoVars, hist, now, banVars, cfgVars, provider_usage, req, resp>>

\* forward after .send().await: a transport error and a status other than
\* 200 both become Err({error, provider}); a 200 is streamed to the client.
ForwardReply(r) ==
    /\ pc[r] = "await_upstream"
    /\ load.build = "salvo"
    /\ \E out \in load.outcomes :
        /\ obs' = [obs EXCEPT ![r].outcome = out,
                              ![r].incAtHdr = obs[r].incP + obs[r].incK]
        /\ loc' = [loc EXCEPT ![r].status = out.status, ![r].body = out.body]
        /\ IF out.kind = "error" \/ out.status # 200
           THEN Reply(r, ForwardError(out.body, loc[r].provider.name))
           ELSE Reply(r, Response(200, IF req[r].stream THEN "text/event-stream"
                                       ELSE "application/json", None, None, out.body))
        /\ answered' = FirstAnswer(r, out.kind # "error" /\ out.status = 200, out.body)
    /\ UNCHANGED <<load, cache, store, boot, sse, hist, now, banVars, config, usageVars, req>>

\* ------------------------------------------------------------- the server
\* The states in which a task is suspended on an await that is pending.
Suspended(r) ==
    \/ pc[r] \in {"await_upstream", "reload_wait"}
    \/ pc[r] \in {"get_provider", "get_mapping"} /\ ~CanReadConfig

\* The client closes the connection while its task is suspended: the server
\* drops the task, and with it the guards it holds and its pending write.
ClientDisconnect(r) ==
    /\ Suspended(r)
    /\ Reply(r, NoResponse)
    /\ UNCHANGED <<load, memoVars, hist, now, banVars, config, usageVars, req, loc, obs>>

\* The connection of a finished request goes away; the slot serves the next.
Recycle(r) ==
    /\ pc[r] = "done"
    /\ pc' = [pc EXCEPT ![r] = "idle"]
    /\ req' = [req EXCEPT ![r] = NoRequest]
    /\ loc' = [loc EXCEPT ![r] = NoLocals]
    /\ resp' = [resp EXCEPT ![r] = NoResponse]
    /\ obs' = [obs EXCEPT ![r] = NoObs]
    /\ UNCHANGED <<load, memoVars, hist, now, banVars, cfgVars, usageVars>>

\* ----------------------------------------- the relay of an upstream body
gatewayVars == <<load, now, banVars, cfgVars, usageVars, pc, req, loc, resp, obs,
                 hist, cache, store, boot, answered>>

\* forward has returned Ok(ai_res) in completions or in no_think_completions,
\* for a request with stream true or not and the Model it selected.
OpenStream ==
    /\ sse.endpoint = None
    /\ \E endpoint \in {"completions", "no_think"}, stream \in BOOLEAN,
          i \in DOMAIN config.providers :
        \E j \in DOMAIN config.providers[i].models :
            sse' = [NoStream EXCEPT !.endpoint = endpoint, !.stream = stream,
                                    !.model = config.providers[i].models[j]]
    /\ UNCHANGED gatewayVars

\* One event of a streamed body arrives: completions passes the bytes on,
\* no_think_completions runs its closure on the event.
RelayEvent ==
    /\ sse.endpoint # None
    /\ sse.stream
    /\ Len(sse.received) < MaxEvents
    /\ \E event \in Events :
        LET after == IF sse.endpoint = "no_think"
                     THEN no_think_event(sse.thinked, sse.buffer, event)
                     ELSE [thinked |-> FALSE, buffer |-> <<>>, emit |-> event]
        IN  sse' = [sse EXCEPT !.thinked = after.thinked, !.buffer = after.buffer,
                               !.received = Append(@, event),
                               !.sent = Append(@, after.emit)]
    /\ UNCHANGED gatewayVars

\* A body that is not streamed arrives, with its choices[0].message.content:
\* completions passes it on, no_think_completions keeps what follows the
\* last close tag.
RelayBody ==
    /\ sse.endpoint # None
    /\ ~sse.stream
    /\ sse.received = <<>>
    /\ \E event \in {e \in Events : e.has_content} :
        sse' = [sse EXCEPT !.received = <<event>>,
                           !.sent = IF sse.endpoint = "no_think"
                                    THEN <<Delta(split_last(event.content, CloseTag))>>
                                    ELSE <<event>>]
    /\ UNCHANGED gatewayVars

\* The body has ended.
CloseStream ==
    /\ sse.endpoint # None
    /\ sse' = NoStream
    /\ UNCHANGED gatewayVars

ThinkInit == Init /\ load = SalvoLoad
ThinkNext == OpenStream \/ RelayEvent \/ RelayBody \/ CloseStream
ThinkSpec == ThinkInit /\ [][ThinkNext]_vars

Next ==
    \/ Tick
    \/ LoadCacheRow
    \/ \E r \in Slots :
        \/ AuthHandlerEnter(r)
        \/ AuthHandlerCheck(r)
        \/ ChatCompletions(r)
        \/ GetProviderByModel(r)
        \/ GetModelMapping(r)
        \/ SelectApiKey(r)
        \/ Send(r)
        \/ UpstreamReply(r)
        \/ UpdateProviderUsage(r)
        \/ UpdateKeyUsage(r)
        \/ ClearProviderUsage(r)
        \/ ClearKeyUsage(r)
        \/ ReloadConfig(r)
        \/ GetStats(r)
        \/ Completions(r)
        \/ SelectProviderRead(r)
        \/ SelectProviderWrite(r)
        \/ SelectKeyRead(r)
        \/ SelectKeyWrite(r)
        \/ ForwardReply(r)
        \/ RecordInsert(r)
        \/ SaveToDb(r)
        \/ ClientDisconnect(r)
        \/ Recycle(r)

Spec == Init /\ [][Next]_vars

\* The runtime polls every task that can take a step: a reload that can
\* proceed does proceed.
FairSpec == Spec /\ \A r \in Slots : WF_vars(ReloadConfig(r))

\* The runtime polls every task that can take a step, so a request that has
\* been accepted is carried on until it is answered; whether requests
\* arrive, and whether their clients go away, is up to the clients.
LiveSpec ==
    Spec /\ \A r \in Slots :
        WF_vars(\/ AuthHandlerCheck(r) \/ ChatCompletions(r)
                \/ GetProviderByModel(r) \/ GetModelMapping(r)
                \/ SelectApiKey(r) \/ Send(r) \/ UpstreamReply(r)
                \/ UpdateProviderUsage(r) \/ UpdateKeyUsage(r)
                \/ ClearProviderUsage(r) \/ ClearKeyUsage(r)
                \/ ReloadConfig(r) \/ GetStats(r)
                \/ SelectProviderRead(r) \/ SelectProviderWrite(r)
                \/ SelectKeyRead(r) \/ SelectKeyWrite(r) \/ ForwardReply(r)
                \/ RecordInsert(r) \/ SaveToDb(r) \/ Recycle(r))

\* ------------------------------------------------------------- properties
\* C1: for an IPv4 client of the axum gateway, every request with a wrong
\* or missing token that arrives before the client has completed a run of
\* max_failures failures (inside the window, no success in between) is
\* answered 401, and every request that arrives after the run is answered
\* 403 ip_banned, whatever token it carries.
C1_BanAfterMaxFailures ==
    \A r \in Slots :
        (/\ pc[r] = "done"
         /\ load.build = "axum"
         /\ ParseIpAddr(req[r].ip).family = "V4")
        => /\ obs[r].late
                => resp[r].status = 403 /\ resp[r].type = "ip_banned"
           /\ (~obs[r].late /\ req[r].auth # ValidAuth)
                => resp[r].status = 401 /\ resp[r].type = "auth_error"

\* A request with the valid token that arrived after the run got 403.
C1_Witness ==
    \E r \in Slots :
        /\ pc[r] = "done"
        /\ req[r].ip = Ip4
        /\ req[r].auth = ValidAuth
        /\ obs[r].late
        /\ hist.fresh[Ip4] = max_failures
        /\ resp[r].status = 403

\* C2: Banned is terminal: no step of the gateway (a successful
\* authentication, the passing of the window, an admin reset, a reload of
\* the configuration) takes an identifier that is_banned reports out of
\* that state.
C2_BannedIsTerminal ==
    [][\A ip \in ClientIps : is_banned(ip) => is_banned(ip)']_vars

\* The ban of an identifier is still reported after the window of its
\* failures has passed.
C2_Witness ==
    /\ is_banned(Ip4)
    /\ FailureRecord(Ip4) # <<>>
    /\ now - FailureRecord(Ip4)[2] > window_duration

\* C3: the failures of IPv6 clients are counted per /48 network: an IPv6
\* client is banned exactly when the clients of its /48 have together
\* completed a run of max_failures failures, so that one failure from
\* 2001:db8:abcd::1 and four from 2001:db8:abcd:ffff::2 ban both, and the
\* clients of another /48 stay unbanned.
C3_Ipv6CountedPerNetwork ==
    \A ip \in ClientIps :
        ParseIpAddr(ip).family = "V6"
        => (is_banned(ip) <=> ClientKey(ip) \in hist.struck)

\* C4: is_banned(id) is true exactly when the key that record_failure
\* derives from id is in a banned set; in particular an identifier that is
\* no IP address, once record_failure has banned it, is reported banned.
C4_BannedIffKeyInSet ==
    \A ip \in ClientIps :
        LET p == ParseIpAddr(ip)
            key == IF p.ok /\ p.family = "V6" /\ get_ipv6_network(ip) # None
                   THEN get_ipv6_network(ip) ELSE ip
        IN  is_banned(ip) <=> key \in (banned_ipv4 \cup banned_ipv6_networks)

\* C5: a successful authentication removes the failure record of the
\* client identifier, so that get_failure_count is 0 right after it; and an
\* identifier becomes banned only with max_failures failures since its last
\* success.
C5_SuccessClearsFailures ==
    [][/\ \A r \in Slots :
            (pc[r] = "authn" /\ pc'[r] \notin {"authn", "done"})
            => get_failure_count(req[r].ip)' = 0 /\ FailureRecord(req[r].ip)' = <<>>
       /\ \A ip \in ClientIps :
            (~is_banned(ip) /\ is_banned(ip)')
            => hist'.fresh[ip] >= max_failures]_vars

\* A successful authentication found max_failures - 1 failures on record
\* and cleared them: the count is 0 and the identifier is not banned.
C5_Witness ==
    \E r \in Slots :
        /\ pc[r] = "stats"
        /\ req[r].ip = Ip4
        /\ obs[r].cleared = max_failures - 1
        /\ get_failure_count(Ip4) = 0
        /\ hist.fresh[Ip4] = 0
        /\ ~is_banned(Ip4)

\* C6: a request for a plain alias goes to the provider whose usage
\* counter is minimal among all the providers that serve the alias, the
\* first of them in configuration order on a tie.
C6_LeastUsedProvider ==
    \A r \in Slots :
        (pc[r] \in {"get_mapping", "count_provider"} /\ Len(req[r].model) = 1)
        => LET ps == config.providers
               serving == {i \in 1..Len(ps) : ServesAlias(ps[i], req[r].model)}
               chosen == {i \in serving : ps[i].name = loc[r].provider.name}
           IN  \E c \in chosen :
                   /\ \A i \in serving :
                        Usage(provider_usage, ps[c].name) <= Usage(provider_usage, ps[i].name)
                   /\ \A i \in serving :
                        i < c => Usage(provider_usage, ps[i].name)
                                   > Usage(provider_usage, ps[c].name)

\* C7: in the axum gateway a model name of the form P:m selects the
\* provider named P whatever the usage counters and aliases, and the
\* upstream request carries as model exactly the text after the first
\* colon; when no provider is named P the request fails and nothing is
\* sent upstream.
C7_ExplicitProvider ==
    \A r \in Slots :
        (load.build = "axum" /\ Len(req[r].model) >= 2)
        => LET P == req[r].model[1]
               m == Tail(req[r].model)
               known == \E i \in 1..Len(config.providers) : config.providers[i].name = P
           IN  IF known
               THEN /\ loc[r].provider # NoProvider => loc[r].provider.name = P
                    /\ \A i \in 1..Len(obs[r].sent) :
                         obs[r].sent[i].provider = P /\ obs[r].sent[i].model = m
                    /\ (pc[r] = "done" /\ resp[r] # NoResponse) => Len(obs[r].sent) = 1
               ELSE /\ obs[r].sent = <<>>
                    /\ (pc[r] = "done" /\ resp[r] # NoResponse)
                         => resp[r].status = 500 /\ resp[r].type = "service_error"

\* A request for "B:x:y" was sent to B with the model "x:y" and answered,
\* although B was the more used provider.
C7_Witness ==
    \E r \in Slots :
        /\ pc[r] = "done"
        /\ req[r].model = TwoColonModel
        /\ Len(obs[r].sent) = 1
        /\ obs[r].sent[1].provider = "B"
        /\ obs[r].sent[1].model = <<"x", "y">>
        /\ resp[r].status = 200
        /\ Usage(provider_usage, "B") > Usage(provider_usage, "A")

\* C8: a request for which a provider and a key were selected increments
\* exactly one provider counter and one key counter, both before the head
\* of the upstream response is read, and also when the upstream request
\* ends in a transport error.
C8_CountedBeforeResponse ==
    \A r \in Slots :
        /\ obs[r].incP <= 1 /\ obs[r].incK <= 1
        /\ obs[r].outcome.kind = "response" => obs[r].incAtHdr = 2
        /\ obs[r].outcome.kind = "error" => obs[r].incP = 1 /\ obs[r].incK = 1

\* C9: when the upstream answers with a status outside 2xx, the client
\* gets status 500 with a body {error: the text the upstream sent,
\* provider: the provider's name}, and the counters have been incremented.
C9_UpstreamErrorRelayed ==
    \A r \in Slots :
        (/\ pc[r] = "done"
         /\ resp[r] # NoResponse
         /\ obs[r].outcome.kind = "response"
         /\ ~is_success(obs[r].outcome.status))
        => /\ resp[r].status = 500
           /\ resp[r].error = obs[r].outcome.body
           /\ resp[r].provider = obs[r].sent[1].provider
           /\ obs[r].incP = 1 /\ obs[r].incK = 1

\* C10: there is no failover: a client request causes at most one upstream
\* request, with one provider and one key selected, and when that request
\* fails (transport error or a status outside 2xx) the client gets an error
\* response and nothing is sent again.
C10_NoFailover ==
    \A r \in Slots :
        /\ Len(obs[r].sent) <= 1
        /\ obs[r].incP <= 1 /\ obs[r].incK <= 1
        /\ (/\ pc[r] = "done"
            /\ resp[r] # NoResponse
            /\ \/ obs[r].outcome.kind = "error"
               \/ obs[r].outcome.kind = "response" /\ ~is_success(obs[r].outcome.status))
           => resp[r].status = 500 /\ Len(obs[r].sent) = 1

\* A request for an alias that A and B both serve went to A, the
\* connection failed, and the client got the error with B never tried.
C10_Witness ==
    \E r \in Slots :
        /\ pc[r] = "done"
        /\ req[r].model = PlainModel
        /\ obs[r].outcome = TransportError
        /\ resp[r].status = 500
        /\ Len(obs[r].sent) = 1
        /\ obs[r].sent[1].provider = "A"

\* C11: a request that did not pass authentication never gets past the
\* authentication step: it is answered 403 (banned identifier) or 401
\* (Authorization header missing or other than "Bearer <config.auth>"),
\* no provider or key is selected for it, nothing is sent upstream and no
\* usage counter is changed on its behalf.
C11_NoForwardWithoutAuth ==
    \A r \in Slots :
        (/\ req[r].ip # None
         /\ \/ ~(req[r].auth.present /\ req[r].auth.scheme = "Bearer"
                   /\ req[r].auth.token = config.auth)
            \/ resp[r].status = 403)
        => /\ pc[r] \in {"authn", "done"}
           /\ pc[r] = "done" => resp[r].status \in {401, 403}
           /\ loc[r] = NoLocals
           /\ obs[r].sent = <<>>
           /\ obs[r].incP = 0 /\ obs[r].incK = 0

\* A request with the right token under another scheme was answered 401
\* by the gateway that serves chat requests, and the counters that earlier
\* requests had raised were left as they were.
C11_Witness ==
    \E r \in Slots :
        /\ pc[r] = "done"
        /\ "chat" \in load.routes
        /\ req[r].auth = BasicAuth
        /\ resp[r].status = 401
        /\ obs[r].sent = <<>>
        /\ Usage(provider_usage, "A") > 0

\* C12: when a reset request that read a valid configuration file is over,
\* both usage maps are empty and the configuration snapshot equals the file
\* as the reset read it.
C12_ResetReloads ==
    \A r \in Slots :
        (/\ pc[r] = "done"
         /\ req[r].route = "reset"
         /\ obs[r].file.readable /\ obs[r].file.json
         /\ obs[r].file.value.auth # ""
         /\ Len(obs[r].file.value.providers) > 0
         /\ \A i \in 1..Len(obs[r].file.value.providers) :
                Len(obs[r].file.value.providers[i].keys) > 0)
        => /\ provider_usage = EmptyMap
           /\ key_usage = EmptyMap
           /\ config = obs[r].file.value

\* C13: every reset request that passed authentication and found a valid
\* configuration file eventually returns its response: the write lock is
\* obtained, the snapshot swapped, and 200 answered.
C13_ResetReturns ==
    \A r \in Slots :
        (pc[r] = "reload_wait") ~> (pc[r] = "done" /\ resp[r].status = 200)

C15_RepeatServedFromCache ==
    \A r \in Slots :
        (/\ pc[r] = "done" /\ resp[r] # NoResponse
         /\ req[r].auth = ValidAuth /\ req[r].model # NoModel
         /\ obs[r].prior # None)
        => /\ resp[r].status = 200
           /\ resp[r].content = obs[r].prior
           /\ obs[r].sent = <<>>
           /\ obs[r].incP = 0 /\ obs[r].incK = 0

\* C16: a chat request whose messages are in CACHE or in table ai_requests
\* when it is handled causes no upstream request and no increment of a
\* provider or key counter.
C16_CachedNotForwarded ==
    \A r \in Slots :
        (/\ req[r].auth = ValidAuth /\ req[r].model # NoModel
         /\ obs[r].hit)
        => /\ obs[r].sent = <<>>
           /\ obs[r].incP = 0 /\ obs[r].incK = 0


\* C17: an entry of the cache is stable: while the messages stay in CACHE,
\* no write, be it record's or load_cache's, changes the response they are
\* mapped to; the entry can only go away by eviction.
C17_CacheEntriesStable ==
    [][\A m \in Messages :
          (Has(cache, m) /\ Has(cache', m)) => cache'[m] = cache[m]]_vars

\* C18: a call of record whose INSERT fails, or that finds no store
\* configured, returns as any other, with the pair it was given in CACHE
\* once it has returned and nothing but a log line to show for the failure.
C18_StoreFailureOnlyLogged ==
    \A r \in Slots :
        (/\ pc[r] = "done" /\ req[r].route = "record"
         /\ ~load.database \/ obs[r].outcome.kind = "insert failed")
        => resp[r].type = "returned"


\* C19: on a stream of the no_think endpoint the events sent are those of
\* the filter as specified: empty content while the thinking lasts, then the
\* buffer from behind the FIRST close tag on (or the whole buffer, when it
\* has more than three characters, does not begin with "<th" and holds no
\* close tag), then every event as it came.
C19_ThinkStripStateMachine ==
    (sse.endpoint = "no_think" /\ sse.stream)
    => LET spec == SpecThinkRun(sse.received, Len(sse.received)) IN
       /\ sse.sent = spec.sent
       /\ sse.thinked = ~spec.stillThinking

\* C20: a body is filtered only when its request came through the no_think
\* endpoint and the Model it selected is marked think; every other body,
\* streamed or not, reaches the client as it came.
C20_StripOnlyThinkModels ==
    (sse.endpoint = "completions" \/ (sse.endpoint = "no_think" /\ ~think(sse.model)))
    => sse.sent = sse.received


C22_AdminNeedsNoAuth ==
    \A r \in Slots :
        (/\ pc[r] = "done" /\ resp[r] # NoResponse
         /\ req[r].route \in {"stats", "reset"}
         /\ ~HasBearerPrefix(req[r].auth))
        => /\ resp[r].status \notin {401, 403}
           /\ StoredCount(req[r].ip) = 0

\* C22, amended: the stats and the reset endpoint sit behind auth_handler
\* like the chat endpoint: a request to either of them without the valid
\* bearer token never reaches its handler; unless the client is banned it
\* is answered 401, and a failure is on the record of the client when the
\* answer leaves.
C22_AdminBehindAuth ==
    [][\A r \in Slots :
          (/\ req[r].route \in {"stats", "reset"}
           /\ ~(req[r].auth.present /\ req[r].auth.scheme = "Bearer"
                /\ req[r].auth.token = config.auth))
          => /\ pc'[r] \in {"idle", "authn", "done"}
             /\ (pc[r] = "authn" /\ pc'[r] = "done")
                => /\ resp'[r].status = 401
                   /\ StoredCount(req[r].ip)' >= 1]_vars

C22_Witness ==
    \E r \in Slots :
        /\ pc[r] = "done"
        /\ req[r].route = "reset"
        /\ req[r].auth = BasicAuth
        /\ resp[r].status = 401
        /\ StoredCount(req[r].ip) = 1
        /\ provider_usage # EmptyMap


\* C23: record_failure is atomic per identifier: every call made inside the
\* window adds exactly one to the stored count, whatever other requests of
\* the identifier are under way, and when the call has brought the count to
\* max_failures or more the key is in the banned set as it returns.
C23_RecordFailureAtomic ==
    [][\A r \in Slots :
          (pc[r] = "authn" /\ pc'[r] = "done" /\ resp'[r].status = 401)
          => LET ip == req[r].ip
                 p == ParseIpAddr(ip)
                 rec == FailureRecord(ip)
                 inside == rec = <<>> \/ now - rec[2] <= window_duration
             IN  /\ inside => StoredCount(ip)' = StoredCount(ip) + 1
                 /\ inside /\ rec # <<>> => FailureRecord(ip)'[2] = rec[2]
                 /\ (inside /\ StoredCount(ip)' >= max_failures)
                    => IF p.ok /\ p.family = "V6" /\ get_ipv6_network(ip) # None
                       THEN get_ipv6_network(ip) \in banned_ipv6_networks'
                       ELSE ip \in banned_ipv4']_vars

\* Two requests of one client were under way together when the count stood
\* at max_failures - 1; both failed, and the count stands at
\* max_failures + 1.
C23_Witness ==
    /\ load = RaceLoad
    /\ \A r \in Slots : pc[r] = "done" /\ resp[r].status = 401 /\ req[r].ip = Ip4
    /\ StoredCount(Ip4) = max_failures + 1
    /\ Ip4 \in banned_ipv4


\* C24: a banned identifier is never consulted for failure counting: no
\* request of an identifier that is_banned reports as banned goes on to
\* record_failure or reset_failures, is answered 401 or is passed to the
\* handler, and no stored count exceeds max_failures.
C24_BannedNeverCounted ==
    [][\A r \in Slots :
          (pc[r] = "authn" /\ pc'[r] # "authn")
          => /\ ~is_banned(req[r].ip)
             /\ StoredCount(req[r].ip)' <= max_failures]_vars


\* C25: the failure window is anchored at the first failure of the run: a
\* failure recorded more than the window after first_failure starts a new
\* run (1, now) and bans nobody, a failure inside the window leaves
\* first_failure where it was, and first_failure moves at no other time.
C25_WindowAnchoredAtFirstFailure ==
    [][\A r \in Slots :
          (pc[r] = "authn" /\ pc'[r] = "done" /\ resp'[r].status = 401
           /\ FailureRecord(req[r].ip) # <<>>)
          => LET ip == req[r].ip
                 rec == FailureRecord(ip)
             IN  IF now - rec[2] > window_duration
                 THEN /\ FailureRecord(ip)' = <<1, now>>
                      /\ get_failure_count(ip)' = 1
                      /\ banned_ipv4' = banned_ipv4
                      /\ banned_ipv6_networks' = banned_ipv6_networks
                 ELSE /\ FailureRecord(ip)'[2] = rec[2]
                      /\ FailureRecord(ip)'[1] > rec[1]]_vars

\* max_failures - 1 failures, a pause longer than the window and
\* max_failures - 1 more failures: the client has failed max_failures times
\* and more since its last success, its run started after the pause and it
\* is not banned.
C25_Witness ==
    /\ load = BanLoadV4
    /\ hist.fresh[Ip4] = max_failures
    /\ FailureRecord(Ip4) = <<max_failures - 1, MaxTime>>
    /\ Ip4 \notin banned_ipv4
    /\ ~is_banned(Ip4)


\* C26: the selection of a key is atomic with its increment: two requests
\* under way together never hold the same key, both selected at the same
\* counter value, with neither increment made yet.
C26_SelectionAtomicWithIncrement ==
    \A r1 \in Slots, r2 \in Slots :
        (/\ r1 # r2
         /\ pc[r1] \in {"send", "await_upstream", "update_provider", "update_key",
                        "count_key"}
         /\ pc[r2] \in {"send", "await_upstream", "update_provider", "update_key",
                        "count_key"}
         /\ obs[r1].incK = 0 /\ obs[r2].incK = 0
         /\ loc[r1].api_key = loc[r2].api_key)
        => obs[r1].seen # obs[r2].seen


\* C27: the key selected for a request is the first key, in configuration
\* order, whose usage (0 if absent) is minimal among the keys of the chosen
\* provider; and when requests come one after the other, the usage counts
\* of the keys of a provider differ by at most 1 after every request.
C27_LeastUsedKeyFirst ==
    [][\A r \in Slots :
          /\ (pc[r] \in {"select_key", "pick_key"} /\ pc'[r] \in {"send", "count_key"})
             => LET keys == loc[r].provider.keys IN
                \E i \in 1..Len(keys) :
                    /\ loc'[r].api_key = keys[i]
                    /\ \A j \in 1..Len(keys) :
                           Usage(key_usage, keys[i]) <= Usage(key_usage, keys[j])
                    /\ \A j \in 1..(i - 1) :
                           Usage(key_usage, keys[j]) > Usage(key_usage, keys[i])
          /\ (load.slots = {r} /\ pc[r] # pc'[r] /\ pc'[r] \in {"idle", "done"})
             => \A n \in 1..Len(config.providers) :
                    LET keys == config.providers[n].keys IN
                    \A i \in 1..Len(keys), j \in 1..Len(keys) :
                        Usage(key_usage, keys[i])' <= Usage(key_usage, keys[j])' + 1]_vars

\* A request finds both keys of provider A used once and takes the first;
\* the request before it had found the first key ahead and taken the second.
C27_Witness ==
    /\ load = RouteLoad
    /\ pc["r1"] = "send"
    /\ loc["r1"].api_key = "ka1"
    /\ Usage(key_usage, "ka1") = 1
    /\ Usage(key_usage, "ka2") = 1


\* C28: if chat requests for the alias "m" keep arriving at the axum
\* gateway for ever and keep being given a provider, then every provider of
\* the configuration that serves "m" is selected for one of them again and
\* again.
C28_EveryProviderSelectedAgain ==
    ([]<>(\E r \in Slots : load.build = "axum" /\ pc[r] = "get_mapping"
                           /\ req[r].model = PlainModel))
    => \A n \in 1..Len(StartConfig.providers) :
           []<>(\E r \in Slots : pc[r] = "get_mapping"
                                 /\ loc[r].provider.name = StartConfig.providers[n].name)


C30_NoLockAcrossUpstreamWait ==
    \A r \in Slots :
        pc[r] = "await_upstream" => cfg_readers[r] = 0 /\ r \notin cfg_writers


\* C31: usage counters only grow between resets: no step other than the
\* two clearing steps of reset_stats lowers or removes a provider or key
\* counter, and every increment made for a request raises the counter of its
\* provider, and of its key, by exactly one and leaves the others alone,
\* whatever other requests are under way.
C31_CountersOnlyGrow ==
    [][/\ (\A r \in Slots : pc[r] # "clear_provider")
          => \A k \in DOMAIN provider_usage :
                 Has(provider_usage', k) /\ provider_usage'[k] >= provider_usage[k]
       /\ (\A r \in Slots : pc[r] # "clear_key")
          => \A k \in DOMAIN key_usage :
                 Has(key_usage', k) /\ key_usage'[k] >= key_usage[k]
       /\ \A r \in Slots :
            /\ obs'[r].incP = obs[r].incP + 1
               => \A k \in DOMAIN provider_usage' :
                      provider_usage'[k] = Usage(provider_usage, k)
                          + (IF k = loc[r].provider.name THEN 1 ELSE 0)
            /\ obs'[r].incK = obs[r].incK + 1
               => \A k \in DOMAIN key_usage' :
                      key_usage'[k] = Usage(key_usage, k)
                          + (IF k = loc[r].api_key THEN 1 ELSE 0)]_vars

\* Two chat requests were under way together, both with key ka1 of provider
\* A selected at usage 0; both have made their two increments, and both
\* counters stand at 2.
C31_Witness ==
    /\ load = SelectLoad
    /\ \A r \in Slots : /\ pc[r] = "done" /\ obs[r].incP = 1 /\ obs[r].incK = 1
                        /\ loc[r].api_key = "ka1" /\ obs[r].seen = 0
    /\ Usage(provider_usage, "A") = 2
    /\ Usage(key_usage, "ka1") = 2


\* C32 as stated: on a stream of the no_think endpoint, an event after
\* which the accumulated content begins with "<th" and holds no close tag
\* is sent with empty content, however long the content has grown; and the
\* event with which the close tag completes is the one that carries the
\* first non-empty content.
C32_EmptyUntilCloseTag ==
    [][(sse.endpoint = "no_think" /\ sse.stream
        /\ Len(sse'.received) = Len(sse.received) + 1)
       => LET n == Len(sse'.received)
              acc[i \in 0..n] ==
                  IF i = 0 THEN <<>> ELSE acc[i - 1] \o sse'.received[i].content
          IN  /\ (starts_with(acc[n], OpenPrefix) /\ ~contains(acc[n], CloseTag))
                 => \A i \in 1..n : sse'.sent[i].content = <<>>
              /\ (starts_with(acc[n], OpenPrefix) /\ contains(acc[n], CloseTag)
                  /\ ~contains(acc[n - 1], CloseTag))
                 => /\ \A i \in 1..(n - 1) : sse'.sent[i].content = <<>>
                    /\ sse'.sent[n].content # <<>>]_vars

\* C32, amended: as above, but the event with which the close tag completes
\* carries non-empty content unless the accumulated content ends with the
\* close tag; no event before it carries any.
C32_EmptyUntilCloseTagOrNothingBehind ==
    [][(sse.endpoint = "no_think" /\ sse.stream
        /\ Len(sse'.received) = Len(sse.received) + 1)
       => LET n == Len(sse'.received)
              acc[i \in 0..n] ==
                  IF i = 0 THEN <<>> ELSE acc[i - 1] \o sse'.received[i].content
              tail == SubSeq(acc[n], Len(acc[n]) - Len(CloseTag) + 1, Len(acc[n]))
          IN  /\ (starts_with(acc[n], OpenPrefix) /\ ~contains(acc[n], CloseTag))
                 => \A i \in 1..n : sse'.sent[i].content = <<>>
              /\ (starts_with(acc[n], OpenPrefix) /\ contains(acc[n], CloseTag)
                  /\ ~contains(acc[n - 1], CloseTag))
                 => /\ \A i \in 1..(n - 1) : sse'.sent[i].content = <<>>
                    /\ sse'.sent[n].content = <<>> <=> tail = CloseTag]_vars

\* The reasoning ran over two events, both sent with empty content, and the
\* third event completed the close tag and was sent with the answer's
\* beginning.
C32_Witness ==
    /\ sse.endpoint = "no_think" /\ sse.stream
    /\ sse.received = <<Delta(Contents.ThinkStart), Delta(Contents.AnswerRest),
                        Delta(Contents.ThinkEnd)>>
    /\ sse.sent[1].content = <<>> /\ sse.sent[2].content = <<>>
    /\ sse.sent[3].content # <<>>


\* C33: a chat request of the axum gateway that fails before dispatch (no
\* model field, an alias that no provider serves, a colon form that names
\* an unknown provider) is answered 400 validation_error for the missing
\* model and 500 otherwise; it is given no provider and no key, no upstream
\* request is issued for it, and the step that answers it leaves the
\* provider and key counters as they were.
C33_FailsBeforeDispatch ==
    [][\A r \in Slots :
          (/\ load.build = "axum"
           /\ pc[r] \in {"chat", "get_provider", "get_mapping"}
           /\ pc'[r] = "done"
           /\ resp'[r] # NoResponse
           /\ req'[r].model \in {NoModel, UnservedModel, UnknownProviderModel})
          => /\ IF req'[r].model = NoModel
                THEN resp'[r].status = 400 /\ resp'[r].type = "validation_error"
                ELSE resp'[r].status = 500 /\ resp'[r].type = "service_error"
             /\ loc'[r].provider = NoProvider /\ loc'[r].api_key = None
             /\ obs'[r].sent = <<>> /\ obs'[r].incP = 0 /\ obs'[r].incK = 0
             /\ provider_usage' = provider_usage
             /\ key_usage' = key_usage]_vars

\* A request for an alias that no provider serves has been answered 500
\* with nothing sent upstream, after an earlier request was counted.
C33_Witness ==
    /\ load = RouteLoad
    /\ pc["r1"] = "done"
    /\ req["r1"].model = UnservedModel
    /\ resp["r1"].status = 500
    /\ obs["r1"].sent = <<>>
    /\ Usage(provider_usage, "A") = 1 /\ Usage(key_usage, "ka1") = 1


\* C34: every chat request of the axum gateway that carries the configured
\* token is answered in the end, the upstream answering every call, also
\* when a reset is under way or was issued before it.
C34_AuthenticatedRequestAnswered ==
    \A r \in Slots :
        (/\ load.build = "axum"
         /\ pc[r] \notin {"idle", "done"}
         /\ req[r].route = "chat"
         /\ req[r].auth = ValidAuth)
        ~> (pc[r] = "done")


\* C35: whenever no request is between its provider increment and its key
\* increment and no reset is in progress, the provider counters and the key
\* counters add up to the same sum.
C35_ProviderSumEqualsKeySum ==
    (\A r \in Slots :
        /\ pc[r] \notin {"clear_provider", "clear_key", "reload", "reload_wait"}
        /\ pc[r] \notin {"idle", "done"} => obs[r].incP = obs[r].incK)
    => Usage(provider_usage, ProviderA.name) + Usage(provider_usage, ProviderB.name)
       = Usage(key_usage, "ka1") + Usage(key_usage, "ka2") + Usage(key_usage, "kb1")


\* C36: in every state, a key of the IPv4 records or of the IPv6 records
\* whose record holds max_failures or more is in the banned set of its
\* family; and every address that parses and that is_banned does not report
\* has a stored count below max_failures.
C36_CountAtMaxImpliesBanned ==
    /\ \A k \in DOMAIN ipv4_fail_records :
           ipv4_fail_records[k][1] >= max_failures => k \in banned_ipv4
    /\ \A k \in DOMAIN ipv6_fail_records :
           ipv6_fail_records[k][1] >= max_failures => k \in banned_ipv6_networks
    /\ \A ip \in ClientIps :
           (ParseIpAddr(ip).ok /\ ~is_banned(ip)) => StoredCount(ip) < max_failures

\* Of two IPv6 clients one has reached max_failures and its key is banned,
\* the other stands one failure short and is not.
C36_Witness ==
    /\ load = BanLoadV6
    /\ \E k \in DOMAIN ipv6_fail_records :
           ipv6_fail_records[k][1] = max_failures /\ k \in banned_ipv6_networks
    /\ \E k \in DOMAIN ipv6_fail_records :
           ipv6_fail_records[k][1] = max_failures - 1 /\ k \notin banned_ipv6_networks


\* C37: the think-strip stream loses no answer text: when the stream of the
\* no_think endpoint ends, the contents sent to the client, joined, are the
\* upstream contents, joined, without the think preface (everything up to
\* and including the first close tag); an answer without preface, however
\* short, arrives whole.  (Nothing is stated for a stream that begins with
\* "<th" and ends before any close tag.)
C37_NoAnswerTextLost ==
    [][(sse.endpoint = "no_think" /\ sse.stream /\ sse'.endpoint = None)
       => LET n == Len(sse.received)
              acc[i \in 0..n] ==
                  IF i = 0 THEN <<>> ELSE acc[i - 1] \o sse.received[i].content
              out[i \in 0..n] ==
                  IF i = 0 THEN <<>> ELSE out[i - 1] \o sse.sent[i].content
          IN  (contains(acc[n], CloseTag) \/ ~starts_with(acc[n], OpenPrefix))
              => out[n] = AfterFirst(acc[n], CloseTag)]_vars


\* C38: when load_cache has loaded the most recent cache_size rows, CACHE
\* holds for every messages value of a loaded row the response of the most
\* recent loaded row with these messages.
C38_CacheHoldsMostRecentRow ==
    [][(load.database /\ boot' = boot + 1 /\ boot' = Len(RecentRows(load.rows)))
       => LET recent == RecentRows(load.rows) IN
          \A i \in 1..Len(recent) :
              (\A h \in 1..(i - 1) : recent[h].messages # recent[i].messages)
              => /\ Has(cache', recent[i].messages)
                 /\ cache'[recent[i].messages] = recent[i].response]_vars

====
